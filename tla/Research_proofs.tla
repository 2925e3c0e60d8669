----------------------------- MODULE Research_proofs -----------------------------
(***************************************************************************)
(* Theorems about Research for any number of workers, stocks, providers'    *)
(* answers and agents, and about the agents whose outputs it collects       *)
(* (Analyst) for any rules and facts.                                       *)
(***************************************************************************)
EXTENDS Research, Analyst, SequenceTheorems, FiniteSetTheorems, NaturalsInduction, WellFoundedInduction, TLAPS

AnalysisFields == {"pc", "stock", "asOf", "known", "left", "outs", "late", "ranking"}
Analysing == {"agents", "features", "narrated"}

IsRanking(l, t) ==
    /\ DOMAIN l = {"pc", "asked", "todo", "refresh", "refreshed"} /\ l.pc = "ranking"
    /\ l.asked \in Nat /\ l.asked <= t /\ l.todo \in Seq(ToSet(Stocks))
    /\ l.refresh \in BOOLEAN /\ l.refreshed \in BOOLEAN
    /\ ~l.refresh => ~l.refreshed /\ l.todo = <<>>

IsFunction(f) == f = [x \in DOMAIN f |-> f[x]]
IsTable(s) == Len(s) \in Nat /\ DOMAIN s = 1 .. Len(s)
ReportFields == {"stock", "asOf", "known", "created", "config", "outs", "synthesis", "late"}

\* What worker l does at time t, when n jobs have begun.
Shape(l, t, n) ==
    /\ l.pc \in {"idle", "fetched", "compared", "ranking"} \cup Analysing
    /\ l.pc = "idle" => l = Idle
    /\ l.pc = "fetched" =>
         /\ DOMAIN l = {"pc", "answer", "run", "retrieved"}
         /\ l.answer \in Payloads /\ l.run \in 1 .. n /\ l.retrieved \in 0 .. t
    /\ l.pc = "compared" =>
         /\ DOMAIN l = {"pc", "store", "retrieved", "rows"}
         /\ l.retrieved \in 0 .. t
    /\ l.pc = "ranking" => IsRanking(l, t)
    /\ l.pc \in Analysing =>
         /\ DOMAIN l = IF l.pc = "narrated" THEN AnalysisFields \cup {"created"} ELSE AnalysisFields
         /\ IsFunction(l.outs) /\ l.known \in Int
         /\ l.ranking # None => IsRanking(l.ranking, t)
         /\ l.pc = "narrated" => l.created \in 0 .. t

ShapesInv ==
    /\ clock \in Nat /\ jobs \in Nat /\ DOMAIN work = Procs
    /\ \A p \in Procs : Shape(work[p], clock, jobs)
    /\ IsTable(reports) /\ \A i \in DOMAIN reports : DOMAIN reports[i] = ReportFields

-----------------------------------------------------------------------------
(* The shapes of what the workers do                                        *)

LEMMA IdleShape == \A t, n : Shape(Idle, t, n)
BY DEF Shape, Idle, Analysing

LEMMA ShapeLasts ==
    ASSUME NEW l, NEW t \in Nat, NEW n \in Nat, NEW u \in Nat, NEW k \in Nat,
           Shape(l, t, n), t <= u, n <= k
    PROVE  Shape(l, u, k)
<1>1. \A r : IsRanking(r, t) => IsRanking(r, u)
  BY DEF IsRanking
<1> QED
  BY <1>1 DEF Shape

\* One worker goes on, the others and the reports stay.
LEMMA OneMoves ==
    ASSUME ShapesInv, NEW p \in Procs, NEW l, work' = [work EXCEPT ![p] = l],
           clock' = clock, jobs' \in Nat, jobs <= jobs', Shape(l, clock, jobs'),
           IsTable(reports'), \A i \in DOMAIN reports' : DOMAIN reports'[i] = ReportFields
    PROVE  ShapesInv'
<1>1. ASSUME NEW q \in Procs PROVE Shape(work'[q], clock', jobs')
  <2>1. CASE q = p
    BY <2>1 DEF ShapesInv
  <2>2. CASE q # p
    <3>1. work'[q] = work[q] /\ Shape(work[q], clock, jobs)
      BY <2>2 DEF ShapesInv
    <3> QED
      BY <3>1, ShapeLasts DEF ShapesInv
  <2> QED
    BY <2>1, <2>2
<1> QED
  BY <1>1 DEF ShapesInv

LEMMA NewRanking ==
    ASSUME NEW t \in Nat, NEW refresh \in BOOLEAN
    PROVE  IsRanking([pc |-> "ranking", asked |-> t, todo |-> IF refresh THEN Stocks ELSE <<>>,
                      refresh |-> refresh, refreshed |-> FALSE], t)
BY UniverseAssumption, EmptySeq DEF IsRanking

LEMMA NewAnalysis ==
    ASSUME NEW t \in Nat, NEW n, NEW stock, NEW asOf, NEW known \in Int, NEW fit, NEW ranking,
           ranking # None => IsRanking(ranking, t)
    PROVE  Shape(Analysis(stock, asOf, known, fit, ranking), t, n)
<1> DEFINE l == Analysis(stock, asOf, known, fit, ranking)
<1>1. /\ l.pc = "agents" /\ DOMAIN l = AnalysisFields /\ l.outs = <<>> /\ l.known = known
      /\ l.ranking = ranking
  BY DEF Analysis, AnalysisFields
<1>2. IsFunction(<<>>)
  BY DEF IsFunction
<1> HIDE DEF l
<1>3. Shape(l, t, n)
  BY <1>1, <1>2 DEF Shape, Analysing
<1> QED
  BY <1>3 DEF l

LEMMA WithFacts ==
    ASSUME NEW f, NEW a, NEW x
    PROVE  /\ DOMAIN With(f, a, x) = (DOMAIN f) \cup {a} /\ With(f, a, x)[a] = x
           /\ \A b \in (DOMAIN f) \ {a} : With(f, a, x)[b] = f[b]
           /\ IsFunction(With(f, a, x))
BY DEF With, IsFunction

LEMMA NotedFacts ==
    ASSUME NEW w, NEW a, NEW got, DOMAIN w = AnalysisFields
    PROVE  LET l == Noted(w, a, got) IN
           /\ DOMAIN l = AnalysisFields /\ IsFunction(l.outs)
           /\ DOMAIN l.outs = DOMAIN w.outs \cup {a}
           /\ l.outs[a] = got /\ \A b \in DOMAIN w.outs \ {a} : l.outs[b] = w.outs[b]
           /\ l.pc = w.pc /\ l.stock = w.stock /\ l.asOf = w.asOf /\ l.known = w.known
           /\ l.late = w.late /\ l.ranking = w.ranking
<1> DEFINE l == Noted(w, a, got)
<1>1. l.outs = With(w.outs, a, got) /\ DOMAIN l = AnalysisFields
  BY DEF Noted, AnalysisFields
<1>2. /\ l.pc = w.pc /\ l.stock = w.stock /\ l.asOf = w.asOf /\ l.known = w.known
      /\ l.late = w.late /\ l.ranking = w.ranking
  BY DEF Noted, AnalysisFields
<1> HIDE DEF l
<1>3. /\ DOMAIN l = AnalysisFields /\ IsFunction(l.outs)
      /\ DOMAIN l.outs = DOMAIN w.outs \cup {a}
      /\ l.outs[a] = got /\ \A b \in DOMAIN w.outs \ {a} : l.outs[b] = w.outs[b]
  <2> DEFINE h == With(w.outs, a, got)
  <2>1. /\ DOMAIN h = DOMAIN w.outs \cup {a} /\ h[a] = got /\ IsFunction(h)
        /\ \A b \in DOMAIN w.outs \ {a} : h[b] = w.outs[b]
    BY DEF With, IsFunction
  <2> HIDE DEF h
  <2> QED
    BY <1>1, <2>1 DEF h
<1> QED
  BY <1>2, <1>3 DEF l

LEMMA FetchShapes ==
    ASSUME ShapesInv, NEW p \in Procs, NEW answer \in Payloads, Fetch(p, answer)
    PROVE  ShapesInv'
<1> DEFINE l == [pc |-> "fetched", answer |-> answer, run |-> jobs + 1, retrieved |-> clock]
<1>1. Shape(l, clock, jobs')
  BY DEF ShapesInv, Shape, Fetch, Analysing
<1>2. /\ work' = [work EXCEPT ![p] = l] /\ clock' = clock /\ reports' = reports
      /\ jobs' \in Nat /\ jobs <= jobs' /\ IsTable(reports')
      /\ \A i \in DOMAIN reports' : DOMAIN reports'[i] = ReportFields
  BY DEF Fetch, ShapesInv
<1> HIDE DEF l
<1> QED
  BY <1>1, <1>2, OneMoves

LEMMA CompareShapes ==
    ASSUME ShapesInv, NEW p \in Procs, NEW embedded \in Embeds, Compare(p, embedded)
    PROVE  ShapesInv'
<1>1. PICK rows : work' = [work EXCEPT ![p] =
          [pc |-> "compared", store |-> work[p].answer.store, retrieved |-> work[p].retrieved,
           rows |-> rows]]
  BY DEF Compare
<1> DEFINE l == [pc |-> "compared", store |-> work[p].answer.store,
                 retrieved |-> work[p].retrieved, rows |-> rows]
<1>2. work[p].retrieved \in 0 .. clock
  BY DEF ShapesInv, Shape, Compare
<1>3. Shape(l, clock, jobs')
  BY <1>2 DEF ShapesInv, Shape, Compare, Analysing
<1> QED
  BY <1>1, <1>3, OneMoves DEF Compare, ShapesInv

\* An ingestion only marks what other workers and the reports have read.
LEMMA MarkedShape ==
    ASSUME NEW l, NEW t, NEW n, NEW late, Shape(l, t, n), l.pc \in Analysing
    PROVE  LET m == [l EXCEPT !.late = late] IN
           /\ Shape(m, t, n) /\ m.late = late /\ m.pc = l.pc
           /\ \A f \in DOMAIN l \ {"late"} : m[f] = l[f]
<1> DEFINE m == [l EXCEPT !.late = late]
<1>1. /\ DOMAIN m = DOMAIN l /\ "late" \in DOMAIN l
      /\ \A f \in DOMAIN l \ {"late"} : m[f] = l[f]
  BY DEF Shape, Analysing, AnalysisFields
<1>2. m.late = late
  BY <1>1
<1>3. /\ m.pc = l.pc /\ m.outs = l.outs /\ m.known = l.known /\ m.ranking = l.ranking
      /\ l.pc = "narrated" => m.created = l.created
  BY <1>1 DEF Shape, Analysing, AnalysisFields
<1>4. DOMAIN m = DOMAIN l
  BY <1>1
<1> HIDE DEF m
<1>5. Shape(m, t, n)
  BY <1>3, <1>4 DEF Shape, Analysing
<1> QED
  BY <1>1, <1>2, <1>3, <1>5 DEF m

LEMMA OutsOfAnalyses ==
    ASSUME NEW l, NEW t, NEW n, Shape(l, t, n)
    PROVE  "outs" \in DOMAIN l <=> l.pc \in Analysing
<1>1. CASE l.pc \in Analysing
  BY <1>1 DEF Shape, Analysing, AnalysisFields
<1>2. CASE l.pc = "ranking"
  BY <1>2 DEF Shape, Analysing, IsRanking
<1>3. CASE l.pc \in {"fetched", "compared"}
  BY <1>3 DEF Shape, Analysing
<1>4. CASE l.pc = "idle"
  BY <1>4 DEF Shape, Analysing, Idle
<1> QED
  BY <1>1, <1>2, <1>3, <1>4 DEF Shape

LEMMA IngestShapes ==
    ASSUME ShapesInv, NEW p \in Procs, Ingest(p)
    PROVE  ShapesInv'
<1>1. CASE Taken(work[p])
  BY <1>1, IdleShape, OneMoves DEF Ingest, ShapesInv
<1>2. CASE ~Taken(work[p])
  <2>1. ASSUME NEW q \in Procs PROVE Shape(work'[q], clock, jobs)
    <3>1. CASE q = p
      BY <1>2, <3>1, IdleShape DEF Ingest
    <3>2. CASE q # p /\ work[q].pc \notin Analysing
      <4>1. work'[q] = work[q]
        BY <1>2, <3>2, OutsOfAnalyses DEF Ingest, ShapesInv
      <4> QED
        BY <4>1 DEF ShapesInv
    <3>3. CASE q # p /\ work[q].pc \in Analysing
      <4>1. work'[q] = [work[q] EXCEPT !.late = Overtaken(work[q], work[p])]
        BY <1>2, <3>3, OutsOfAnalyses DEF Ingest, ShapesInv
      <4> QED
        BY <3>3, <4>1, MarkedShape DEF ShapesInv
    <3> QED
      BY <3>1, <3>2, <3>3
  <2>2. /\ DOMAIN work' = Procs /\ clock' = clock /\ jobs' = jobs
        /\ reports' = [i \in DOMAIN reports |->
                          [reports[i] EXCEPT !.late = Overtaken(reports[i], work[p])]]
    BY <1>2 DEF Ingest, ShapesInv
  <2>3. DOMAIN reports' = DOMAIN reports /\ Len(reports') = Len(reports)
    BY <2>2, LenProperties DEF ShapesInv, IsTable
  <2>4. \A i \in DOMAIN reports' : DOMAIN reports'[i] = ReportFields
    BY <2>2 DEF ShapesInv
  <2> QED
    BY <2>1, <2>2, <2>3, <2>4 DEF ShapesInv, IsTable
<1> QED
  BY <1>1, <1>2

LEMMA RequestShapes ==
    ASSUME ShapesInv, NEW p \in Procs, NEW s \in ToSet(Stocks), NEW q \in Questions,
           Request(p, s, clock - q.back, clock + q.ahead, q.fit)
    PROVE  ShapesInv'
<1> DEFINE l == Analysis(s, clock - q.back, clock + q.ahead, q.fit, None)
<1>1. Shape(l, clock, jobs')
  BY QuestionsAssumption, NewAnalysis DEF ShapesInv
<1>2. /\ work' = [work EXCEPT ![p] = l] /\ clock' = clock /\ reports' = reports
      /\ jobs' \in Nat /\ jobs <= jobs' /\ IsTable(reports')
      /\ \A i \in DOMAIN reports' : DOMAIN reports'[i] = ReportFields
  BY DEF Request, ShapesInv
<1> HIDE DEF l
<1> QED
  BY <1>1, <1>2, OneMoves

\* What an agent's turn makes of an analysis.
LEMMA AgentStep ==
    ASSUME ShapesInv, NEW p \in Procs, RunAgent(p)
    PROVE  LET w == work[p]  a == Head(w.left)
           IN \E got, pc : /\ work' = [work EXCEPT ![p] = [Noted(w, a, got) EXCEPT !.pc = pc]]
                           /\ pc \in {"agents", "features"} /\ DOMAIN w = AnalysisFields
                           /\ \/ got = Judged(Reading(a, w.stock, w.asOf, w.known))
                              \/ got = Unusable("failed")
<1> DEFINE w == work[p]
           a == Head(w.left)
           got == Judged(Reading(a, w.stock, w.asOf, w.known))
<1>1. DOMAIN w = AnalysisFields /\ w.pc = "agents"
  BY DEF ShapesInv, Shape, RunAgent, Analysing
<1>2. ASSUME NEW o PROVE Noted(w, a, o) = [Noted(w, a, o) EXCEPT !.pc = "agents"]
  <2> DEFINE n == Noted(w, a, o)
  <2>1. n.pc = "agents" /\ n = [x \in DOMAIN n |-> n[x]] /\ "pc" \in DOMAIN n
    BY <1>1 DEF Noted, AnalysisFields
  <2> QED
    BY <2>1
<1>3. CASE \/ work' = [work EXCEPT ![p] = Noted(w, a, got)]
           \/ work' = [work EXCEPT ![p] = [Noted(w, a, got) EXCEPT !.pc = "features"]]
  BY <1>1, <1>2, <1>3
<1>4. CASE work' = [work EXCEPT ![p] = Noted(w, a, Unusable("failed"))]
  BY <1>1, <1>2, <1>4
<1>5. \/ work' = [work EXCEPT ![p] = Noted(w, a, got)]
      \/ work' = [work EXCEPT ![p] = [Noted(w, a, got) EXCEPT !.pc = "features"]]
      \/ work' = [work EXCEPT ![p] = Noted(w, a, Unusable("failed"))]
  BY DEF RunAgent
<1> QED
  BY <1>3, <1>4, <1>5

LEMMA RunAgentShapes ==
    ASSUME ShapesInv, NEW p \in Procs, RunAgent(p)
    PROVE  ShapesInv'
<1>1. PICK a, got, pc : /\ work' = [work EXCEPT ![p] = [Noted(work[p], a, got) EXCEPT !.pc = pc]]
                        /\ pc \in {"agents", "features"} /\ DOMAIN work[p] = AnalysisFields
  BY AgentStep
<1> DEFINE n == Noted(work[p], a, got)
           l == [n EXCEPT !.pc = pc]
<1>2. /\ DOMAIN n = AnalysisFields /\ IsFunction(n.outs)
      /\ n.known = work[p].known /\ n.ranking = work[p].ranking
  BY <1>1, NotedFacts
<1> HIDE DEF n
<1>3. /\ DOMAIN l = AnalysisFields /\ IsFunction(l.outs)
      /\ l.known = work[p].known /\ l.ranking = work[p].ranking /\ l.pc = pc
  BY <1>2 DEF AnalysisFields
<1>4. Shape(work[p], clock, jobs) /\ work[p].pc = "agents" /\ jobs' = jobs
  BY DEF ShapesInv, RunAgent
<1>5. work' = [work EXCEPT ![p] = l]
  BY <1>1 DEF n
<1> HIDE DEF l
<1>6. Shape(l, clock, jobs')
  BY <1>1, <1>3, <1>4 DEF Shape, Analysing
<1> QED
  BY <1>5, <1>6, OneMoves DEF ShapesInv, RunAgent

LEMMA StoreFeaturesShapes ==
    ASSUME ShapesInv, NEW p \in Procs, StoreFeatures(p)
    PROVE  ShapesInv'
<1> DEFINE l == [work[p] EXCEPT !.pc = "agents"]
<1>1. work' = [work EXCEPT ![p] = l] \/ work' = [work EXCEPT ![p] = Idle]
  BY DEF StoreFeatures
<1>2. /\ DOMAIN work[p] = AnalysisFields /\ Shape(work[p], clock, jobs) /\ work[p].pc = "features"
  BY DEF ShapesInv, Shape, StoreFeatures, Analysing
<1>3. /\ DOMAIN l = AnalysisFields /\ l.pc = "agents" /\ l.outs = work[p].outs
      /\ l.known = work[p].known /\ l.ranking = work[p].ranking
  BY <1>2 DEF AnalysisFields
<1> HIDE DEF l
<1>4. Shape(l, clock, jobs)
  BY <1>2, <1>3 DEF Shape, Analysing
<1> QED
  BY <1>1, <1>4, IdleShape, OneMoves DEF ShapesInv, StoreFeatures

LEMMA NarrateShapes ==
    ASSUME ShapesInv, NEW p \in Procs, Narrate(p)
    PROVE  /\ ShapesInv'
           /\ LET l == work'[p] IN
              /\ l.pc = "narrated" /\ l.created = clock
              /\ \A f \in AnalysisFields \ {"pc"} : l[f] = work[p][f]
<1> DEFINE n == [work[p] EXCEPT !.pc = "narrated"]
           l == With(n, "created", clock)
<1>1. /\ DOMAIN work[p] = AnalysisFields /\ Shape(work[p], clock, jobs) /\ work[p].pc = "agents"
  BY DEF ShapesInv, Shape, Narrate, Analysing
<1>2. /\ DOMAIN n = AnalysisFields /\ n.pc = "narrated"
      /\ \A f \in AnalysisFields \ {"pc"} : n[f] = work[p][f]
  BY <1>1 DEF AnalysisFields
<1> HIDE DEF n
<1>3. /\ DOMAIN l = AnalysisFields \cup {"created"} /\ l.pc = "narrated" /\ l.created = clock
      /\ \A f \in AnalysisFields \ {"pc"} : l[f] = work[p][f]
  BY <1>2 DEF With, AnalysisFields
<1>4. work' = [work EXCEPT ![p] = l] /\ p \in DOMAIN work
  BY DEF Narrate, n, ShapesInv
<1> HIDE DEF l
<1>5. Shape(l, clock, jobs)
  <2>1. l.outs = work[p].outs /\ l.known = work[p].known /\ l.ranking = work[p].ranking
    BY <1>3 DEF AnalysisFields
  <2> QED
    BY <1>1, <1>3, <2>1 DEF Shape, Analysing, ShapesInv
<1>6. ShapesInv'
  BY <1>4, <1>5, OneMoves DEF ShapesInv, Narrate
<1> QED
  BY <1>3, <1>4, <1>6

\* A table with one more row.
LEMMA Appended ==
    ASSUME NEW s, IsTable(s), NEW e
    PROVE  /\ IsTable(Append(s, e)) /\ DOMAIN Append(s, e) = 1 .. Len(s) + 1
           /\ Append(s, e)[Len(s) + 1] = e /\ \A i \in 1 .. Len(s) : Append(s, e)[i] = s[i]
BY DEF IsTable

LEMMA StoreReportShapes ==
    ASSUME ShapesInv, NEW p \in Procs, StoreReport(p)
    PROVE  ShapesInv'
<1> DEFINE l == IF work[p].ranking = None THEN Idle ELSE work[p].ranking
           row == ReportRow(work[p])
<1>1. Shape(l, clock, jobs)
  <2>1. work[p].ranking # None => IsRanking(work[p].ranking, clock)
    BY DEF ShapesInv, Shape, StoreReport, Analysing
  <2> QED
    BY <2>1, IdleShape DEF Shape, IsRanking, Analysing
<1>2. DOMAIN row = ReportFields
  BY DEF ReportRow, ReportFields
<1>3. work' = [work EXCEPT ![p] = l] /\ reports' = Append(reports, row)
  BY DEF StoreReport
<1> HIDE DEF l, row
<1>4. IsTable(reports') /\ \A i \in DOMAIN reports' : DOMAIN reports'[i] = ReportFields
  <2>1. IsTable(reports)
    BY DEF ShapesInv
  <2>2. /\ IsTable(reports') /\ DOMAIN reports' = 1 .. Len(reports) + 1
        /\ reports'[Len(reports) + 1] = row
        /\ \A i \in 1 .. Len(reports) : reports'[i] = reports[i]
    BY <1>3, <2>1, Appended
  <2> QED
    BY <1>2, <2>1, <2>2 DEF ShapesInv, IsTable
<1> QED
  BY <1>1, <1>3, <1>4, OneMoves DEF ShapesInv, StoreReport

LEMMA StartRankingShapes ==
    ASSUME ShapesInv, NEW p \in Procs, NEW refresh \in BOOLEAN, StartRanking(p, refresh)
    PROVE  ShapesInv'
<1> DEFINE l == [pc |-> "ranking", asked |-> clock, todo |-> IF refresh THEN Stocks ELSE <<>>,
                 refresh |-> refresh, refreshed |-> FALSE]
<1>1. IsRanking(l, clock) /\ l.pc = "ranking"
  BY NewRanking DEF ShapesInv
<1>2. work' = [work EXCEPT ![p] = l]
  BY DEF StartRanking
<1> HIDE DEF l
<1>3. Shape(l, clock, jobs')
  BY <1>1 DEF Shape, Analysing
<1>4. /\ clock' = clock /\ jobs' \in Nat /\ jobs <= jobs' /\ IsTable(reports')
      /\ \A i \in DOMAIN reports' : DOMAIN reports'[i] = ReportFields
  BY DEF StartRanking, ShapesInv
<1> QED
  BY <1>2, <1>3, <1>4, OneMoves

\* The next stock of a ranking.
LEMMA RankingMoves ==
    ASSUME NEW w, NEW t, IsRanking(w, t), w.todo # <<>>
    PROVE  LET next == [w EXCEPT !.todo = Tail(w.todo)]
               begun == [next EXCEPT !.refreshed = TRUE]
           IN /\ w.refresh /\ Head(w.todo) \in ToSet(Stocks)
              /\ ToSet(w.todo) = {Head(w.todo)} \cup ToSet(Tail(w.todo))
              /\ IsRanking(next, t) /\ IsRanking(begun, t)
              /\ next.asked = w.asked /\ next.refresh = w.refresh
              /\ next.refreshed = w.refreshed /\ next.todo = Tail(w.todo)
              /\ begun.asked = w.asked /\ begun.refresh = w.refresh
              /\ begun.refreshed /\ begun.todo = Tail(w.todo)
<1> DEFINE next == [w EXCEPT !.todo = Tail(w.todo)]
           begun == [next EXCEPT !.refreshed = TRUE]
<1>1. /\ w.todo \in Seq(ToSet(Stocks)) /\ w.refresh
      /\ DOMAIN w = {"pc", "asked", "todo", "refresh", "refreshed"}
  BY DEF IsRanking
<1>2. Head(w.todo) \in ToSet(Stocks) /\ Tail(w.todo) \in Seq(ToSet(Stocks))
  BY <1>1
<1>3. ToSet(w.todo) = {Head(w.todo)} \cup ToSet(Tail(w.todo))
  <2> DEFINE t0 == Tail(w.todo)
  <2>1. /\ w.todo[1] = Head(w.todo) /\ Len(w.todo) \in Nat /\ Len(w.todo) # 0
        /\ DOMAIN w.todo = 1 .. Len(w.todo) /\ DOMAIN t0 = 1 .. Len(w.todo) - 1
        /\ \A i \in 1 .. Len(w.todo) - 1 : t0[i] = w.todo[i + 1]
    BY <1>1
  <2> HIDE DEF t0
  <2>2. ASSUME NEW i \in DOMAIN w.todo, i # 1 PROVE i - 1 \in DOMAIN t0 /\ w.todo[i] = t0[i - 1]
    <3>1. i \in Nat /\ i - 1 \in 1 .. Len(w.todo) - 1 /\ (i - 1) + 1 = i
      BY <2>1, <2>2
    <3> QED
      BY <2>1, <3>1
  <2>3. \A i \in DOMAIN t0 : i + 1 \in DOMAIN w.todo /\ w.todo[i + 1] = t0[i]
    BY <2>1
  <2>4. ToSet(w.todo) \subseteq {Head(w.todo)} \cup ToSet(t0)
    BY <2>1, <2>2 DEF ToSet
  <2>5. ToSet(t0) \subseteq ToSet(w.todo)
    BY <2>3 DEF ToSet
  <2>6. Head(w.todo) \in ToSet(w.todo)
    BY <2>1 DEF ToSet
  <2> QED
    BY <2>4, <2>5, <2>6 DEF t0
<1>4. /\ DOMAIN next = DOMAIN w /\ next.pc = w.pc /\ next.asked = w.asked
      /\ next.refresh = w.refresh /\ next.refreshed = w.refreshed /\ next.todo = Tail(w.todo)
  BY <1>1
<1>5. /\ DOMAIN begun = DOMAIN w /\ begun.pc = w.pc /\ begun.asked = w.asked
      /\ begun.refresh = w.refresh /\ begun.refreshed = TRUE /\ begun.todo = Tail(w.todo)
  BY <1>1, <1>4
<1> HIDE DEF begun
<1> HIDE DEF next
<1>6. IsRanking(next, t) /\ IsRanking(begun, t)
  BY <1>1, <1>2, <1>4, <1>5 DEF IsRanking
<1>7. /\ w.refresh /\ Head(w.todo) \in ToSet(Stocks)
      /\ ToSet(w.todo) = {Head(w.todo)} \cup ToSet(Tail(w.todo))
      /\ IsRanking(next, t) /\ IsRanking(begun, t)
      /\ next.asked = w.asked /\ next.refresh = w.refresh
      /\ next.refreshed = w.refreshed /\ next.todo = Tail(w.todo)
      /\ begun.asked = w.asked /\ begun.refresh = w.refresh
      /\ begun.refreshed /\ begun.todo = Tail(w.todo)
  BY <1>1, <1>2, <1>3, <1>4, <1>5, <1>6
<1> QED
  BY <1>7 DEF next, begun

LEMMA CheckReportShapes ==
    ASSUME ShapesInv, NEW p \in Procs, CheckReport(p)
    PROVE  ShapesInv'
<1> DEFINE w == work[p]
           stock == Head(w.todo)
           next == [w EXCEPT !.todo = Tail(w.todo)]
           begun == [next EXCEPT !.refreshed = TRUE]
           l == Analysis(stock, w.asked, clock, FALSE, begun)
<1>1. IsRanking(w, clock) /\ w.todo # <<>>
  BY DEF ShapesInv, Shape, CheckReport
<1>2. IsRanking(next, clock) /\ IsRanking(begun, clock)
  BY <1>1, RankingMoves
<1>3. work' = [work EXCEPT ![p] = l] \/ work' = [work EXCEPT ![p] = next]
  BY DEF CheckReport
<1> HIDE DEF begun
<1>4. Shape(l, clock, jobs)
  <2>1. clock \in Nat /\ clock \in Int /\ (begun # None => IsRanking(begun, clock))
    BY <1>2 DEF ShapesInv
  <2> HIDE DEF next, w, stock
  <2> QED
    BY <2>1, NewAnalysis
<1> HIDE DEF next, l
<1>5. Shape(next, clock, jobs)
  BY <1>2 DEF Shape, IsRanking, Analysing
<1> QED
  BY <1>3, <1>4, <1>5, OneMoves DEF ShapesInv, CheckReport

LEMMA EvaluateShapes ==
    ASSUME ShapesInv, NEW p \in Procs, Evaluate(p) \/ Die(p)
    PROVE  ShapesInv'
<1>1. /\ work' = [work EXCEPT ![p] = Idle] /\ clock' = clock /\ jobs' = jobs /\ reports' = reports
  BY DEF Evaluate, Die
<1> QED
  BY <1>1, IdleShape, OneMoves DEF ShapesInv

LEMMA OthersShapes ==
    ASSUME ShapesInv, Tick \/ Trade \/ Redeploy \/ UNCHANGED vars
    PROVE  ShapesInv'
<1>1. CASE Tick
  BY <1>1, ShapeLasts DEF Tick, ShapesInv
<1>2. CASE Redeploy
  BY <1>2, IdleShape DEF Redeploy, ShapesInv
<1>3. CASE Trade \/ UNCHANGED vars
  BY <1>3 DEF Trade, ShapesInv, vars
<1> QED
  BY <1>1, <1>2, <1>3

LEMMA InitShapes == Init => ShapesInv
BY IdleShape DEF Init, ShapesInv, IsTable

LEMMA StepShapes == ShapesInv /\ [Next]_vars => ShapesInv'
BY FetchShapes, CompareShapes, IngestShapes, RequestShapes, RunAgentShapes, StoreFeaturesShapes,
   NarrateShapes, StoreReportShapes, StartRankingShapes, CheckReportShapes, EvaluateShapes,
   OthersShapes
   DEF Next

\* What the workers hold is what their steps expect.
THEOREM ShapesHold == Spec => []ShapesInv
BY InitShapes, StepShapes, PTL DEF Spec

-----------------------------------------------------------------------------
(* Replay: what an agent read is what would be read again                   *)

StoryFields == {"stock", "title", "value", "published", "retrieved", "embedded", "original",
                "run", "compared", "stored"}

RowsAreOf(w) ==
    \A r \in w.rows :
       /\ r.retrieved = w.retrieved
       /\ IF w.store = "news" THEN DOMAIN r = StoryFields ELSE r.store = w.store

\* Every output that is not marked is what its agent makes of the stores as they are now.
AsRead(r) ==
    \A a \in DOMAIN r.outs :
       \/ a \in r.late \/ r.outs[a].status = "failed" \/ Reads[a] = "holdings"
       \/ r.outs[a] = Judged(Reading(a, r.stock, r.asOf, r.known))

ReplayInv ==
    /\ \A p \in Procs : /\ work[p].pc = "compared" => RowsAreOf(work[p])
                        /\ work[p].pc \in Analysing => AsRead(work[p])
    /\ \A i \in DOMAIN reports : /\ AsRead(reports[i]) /\ IsFunction(reports[i].outs)
                                 /\ reports[i].known \in Int
                                 /\ reports[i].synthesis = Synthesize(reports[i].outs)

LEMMA ReadingStays ==
    ASSUME NEW a, NEW stock, NEW asOf, NEW known, Reads[a] # "holdings",
           facts' = facts, stories' = stories
    PROVE  Reading(a, stock, asOf, known)' = Reading(a, stock, asOf, known)
BY DEF Reading, NewsAsOf, Figure, Visible

LEMMA AsReadStays ==
    ASSUME NEW r, AsRead(r), facts' = facts, stories' = stories
    PROVE  AsRead(r)'
<1> SUFFICES ASSUME NEW a \in DOMAIN r.outs
             PROVE  \/ a \in r.late \/ r.outs[a].status = "failed" \/ Reads[a] = "holdings"
                    \/ r.outs[a] = Judged(Reading(a, r.stock, r.asOf, r.known))'
  BY DEF AsRead
<1>1. CASE Reads[a] # "holdings"
  <2>1. Reading(a, r.stock, r.asOf, r.known)' = Reading(a, r.stock, r.asOf, r.known)
    BY <1>1, ReadingStays
  <2> QED
    BY <2>1 DEF AsRead
<1> QED
  BY <1>1

\* Rows that come too late for what is known, or of another store, are not read.
LEMMA ReadingUndisturbed ==
    ASSUME ShapesInv, ReplayInv, NEW p \in Procs, Ingest(p), ~Taken(work[p]),
           NEW a, NEW stock, NEW asOf, NEW known \in Int, Reads[a] # "holdings",
           \/ Reads[a] # work[p].store
           \/ work[p].rows = {} \/ work[p].retrieved > known
    PROVE  Reading(a, stock, asOf, known)' = Reading(a, stock, asOf, known)
<1> DEFINE w == work[p]
<1>1. RowsAreOf(w) /\ w.retrieved \in Int /\ w.pc = "compared"
  BY DEF ReplayInv, ShapesInv, Shape, Ingest
<1>2. /\ facts' = IF w.store = "news" THEN facts ELSE facts \cup w.rows
      /\ stories' = IF w.store = "news" THEN stories \cup {[r EXCEPT !.stored = clock] : r \in w.rows}
                    ELSE stories
  BY DEF Ingest
<1>3. CASE w.store = "news"
  <2>1. CASE Reads[a] = "news"
    <3>1. \A r \in w.rows : [r EXCEPT !.stored = clock].retrieved = w.retrieved
      BY <1>1, <1>3 DEF RowsAreOf, StoryFields
    <3>2. \A r \in w.rows : ~([r EXCEPT !.stored = clock].retrieved <= known)
      BY <1>1, <1>3, <2>1, <3>1
    <3>3. NewsAsOf(stock, asOf, known)' = NewsAsOf(stock, asOf, known)
      BY <1>2, <1>3, <3>2 DEF NewsAsOf, InWindow
    <3> QED
      BY <2>1, <3>3 DEF Reading
  <2>2. CASE Reads[a] # "news"
    BY <1>2, <1>3, <2>2 DEF Reading, Figure, Visible
  <2> QED
    BY <2>1, <2>2
<1>4. CASE w.store # "news"
  <2>1. CASE Reads[a] = "news"
    BY <1>2, <1>4, <2>1 DEF Reading, NewsAsOf
  <2>2. CASE Reads[a] # "news"
    <3>1. \A r \in w.rows : r.store = w.store /\ r.retrieved = w.retrieved
      BY <1>1, <1>4 DEF RowsAreOf
    <3>2. \A r \in w.rows : r.store # Reads[a] \/ ~(r.retrieved <= known)
      BY <1>1, <3>1
    <3>3. Visible(stock, Reads[a], asOf, known)' = Visible(stock, Reads[a], asOf, known)
      BY <1>2, <1>4, <3>2 DEF Visible
    <3> QED
      BY <2>2, <3>3 DEF Reading, Figure
  <2> QED
    BY <2>1, <2>2
<1> QED
  BY <1>3, <1>4

\* So an analysis or a report whose agents are marked when they are overtaken stays right.
LEMMA OvertakenIsMarked ==
    ASSUME ShapesInv, ReplayInv, NEW p \in Procs, Ingest(p), ~Taken(work[p]),
           NEW r, AsRead(r), r.known \in Int,
           NEW m, m.late = Overtaken(r, work[p]), m.outs = r.outs, m.stock = r.stock,
           m.asOf = r.asOf, m.known = r.known
    PROVE  AsRead(m)'
<1> SUFFICES ASSUME NEW a \in DOMAIN m.outs
             PROVE  \/ a \in m.late \/ m.outs[a].status = "failed" \/ Reads[a] = "holdings"
                    \/ m.outs[a] = Judged(Reading(a, m.stock, m.asOf, m.known))'
  BY DEF AsRead
<1>1. r.late \subseteq m.late
  BY DEF Overtaken
<1>2. CASE a \notin m.late /\ Reads[a] # "holdings"
  <2>1. \/ Reads[a] # work[p].store
        \/ work[p].rows = {} \/ work[p].retrieved > r.known
    BY <1>2 DEF Overtaken
  <2>2. Reading(a, r.stock, r.asOf, r.known)' = Reading(a, r.stock, r.asOf, r.known)
    BY <1>2, <2>1, ReadingUndisturbed
  <2> QED
    BY <1>1, <1>2, <2>2 DEF AsRead
<1> QED
  BY <1>2

\* One worker goes on, the stores and the reports stay.
LEMMA ReplayMoves ==
    ASSUME ShapesInv, ReplayInv, NEW p \in Procs, NEW l, work' = [work EXCEPT ![p] = l],
           facts' = facts, stories' = stories, reports' = reports,
           l.pc = "compared" => RowsAreOf(l), l.pc \in Analysing => AsRead(l)
    PROVE  ReplayInv'
<1>1. ASSUME NEW q \in Procs
      PROVE  /\ work'[q].pc = "compared" => RowsAreOf(work'[q])
             /\ work'[q].pc \in Analysing => AsRead(work[q])'
  <2>1. PICK m : m = work'[q]
    OBVIOUS
  <2>2. m = l \/ m = work[q]
    BY <2>1 DEF ShapesInv
  <2>3. m.pc = "compared" => RowsAreOf(m)
    BY <2>2 DEF ReplayInv
  <2>4. m.pc \in Analysing => AsRead(m)
    BY <2>2 DEF ReplayInv
  <2>5. m.pc \in Analysing => AsRead(m)'
    BY <2>4, AsReadStays
  <2> QED
    BY <2>1, <2>3, <2>5
<1>2. ASSUME NEW i \in DOMAIN reports'
      PROVE  /\ AsRead(reports[i])' /\ IsFunction(reports'[i].outs) /\ reports'[i].known \in Int
             /\ reports'[i].synthesis = Synthesize(reports'[i].outs)
  <2>1. PICK r : r = reports'[i]
    OBVIOUS
  <2>2. AsRead(r)
    BY <2>1 DEF ReplayInv
  <2>3. AsRead(r)'
    BY <2>2, AsReadStays
  <2> QED
    BY <2>1, <2>3 DEF ReplayInv
<1> QED
  BY <1>1, <1>2 DEF ReplayInv

LEMMA FetchReplay ==
    ASSUME ShapesInv, ReplayInv, NEW p \in Procs, NEW answer \in Payloads, Fetch(p, answer)
    PROVE  ReplayInv'
<1>1. PICK l : l = [pc |-> "fetched", answer |-> answer, run |-> jobs + 1, retrieved |-> clock]
  OBVIOUS
<1>2. /\ work' = [work EXCEPT ![p] = l] /\ l.pc = "fetched"
      /\ facts' = facts /\ stories' = stories /\ reports' = reports
  BY <1>1 DEF Fetch
<1> QED
  BY <1>2, ReplayMoves DEF Analysing

LEMMA StoryRowFacts ==
    ASSUME NEW stock, NEW item, NEW at, NEW embedded, NEW original, NEW run
    PROVE  LET r == StoryRow(stock, item, at, embedded, original, run) IN
           /\ DOMAIN r = StoryFields /\ r.stock = stock /\ r.title = item.title
           /\ r.value = item.value /\ r.published = item.published /\ r.retrieved = at
           /\ r.embedded = embedded /\ r.original = original /\ r.run = run
           /\ r.compared = clock /\ r.stored = clock
BY DEF StoryRow, StoryFields

LEMMA ComparedRows ==
    ASSUME NEW p \in Procs, Compare(p, TRUE) \/ Compare(p, FALSE), DOMAIN work = Procs
    PROVE  RowsAreOf(work'[p]) /\ work'[p].pc = "compared"
<1>1. PICK embedded \in BOOLEAN : Compare(p, embedded)
  OBVIOUS
<1> DEFINE w == work[p]
           rows == IF w.answer.store = "news" THEN NewStories(w.answer, w.run, w.retrieved, embedded)
                   ELSE NewFacts(w.answer, w.retrieved)
<1>2. work'[p] = [pc |-> "compared", store |-> w.answer.store, retrieved |-> w.retrieved, rows |-> rows]
  BY <1>1 DEF Compare
<1>3. \A r \in NewStories(w.answer, w.run, w.retrieved, embedded) :
         r.retrieved = w.retrieved /\ DOMAIN r = StoryFields
  <2> SUFFICES ASSUME NEW r \in NewStories(w.answer, w.run, w.retrieved, embedded)
               PROVE  r.retrieved = w.retrieved /\ DOMAIN r = StoryFields
    OBVIOUS
  <2>1. PICK item, original :
           r = StoryRow(w.answer.stock, item, w.retrieved, embedded, original, w.run)
    BY DEF NewStories
  <2> QED
    BY <2>1, StoryRowFacts
<1>4. \A r \in NewFacts(w.answer, w.retrieved) : r.retrieved = w.retrieved /\ r.store = w.answer.store
  BY DEF NewFacts, FactRow
<1>5. ASSUME NEW r \in rows
      PROVE  /\ r.retrieved = w.retrieved
             /\ IF w.answer.store = "news" THEN DOMAIN r = StoryFields ELSE r.store = w.answer.store
  BY <1>3, <1>4
<1> HIDE DEF rows
<1> QED
  BY <1>2, <1>5 DEF RowsAreOf

LEMMA CompareReplay ==
    ASSUME ShapesInv, ReplayInv, NEW p \in Procs, NEW embedded \in BOOLEAN, Compare(p, embedded)
    PROVE  ReplayInv'
<1>1. RowsAreOf(work'[p]) /\ work'[p].pc = "compared"
  BY ComparedRows DEF ShapesInv
<1>2. PICK l : l = work'[p]
  OBVIOUS
<1>3. /\ work' = [work EXCEPT ![p] = l]
      /\ facts' = facts /\ stories' = stories /\ reports' = reports
  BY <1>2 DEF Compare, ShapesInv
<1>4. RowsAreOf(l) /\ l.pc = "compared"
  BY <1>1, <1>2
<1> QED
  BY <1>3, <1>4, ReplayMoves DEF Analysing

LEMMA IngestReplay ==
    ASSUME ShapesInv, ReplayInv, NEW p \in Procs, Ingest(p)
    PROVE  ReplayInv'
<1>1. CASE Taken(work[p])
  <2>1. PICK l : l = Idle
    OBVIOUS
  <2>2. /\ work' = [work EXCEPT ![p] = l] /\ l.pc = "idle"
        /\ facts' = facts /\ stories' = stories /\ reports' = reports
    BY <1>1, <2>1 DEF Ingest, Idle
  <2> QED
    BY <2>2, ReplayMoves DEF Analysing
<1>2. CASE ~Taken(work[p])
  <2>1. /\ work' = [q \in Procs |-> IF q = p THEN Idle
                       ELSE IF "outs" \in DOMAIN work[q]
                            THEN [work[q] EXCEPT !.late = Overtaken(work[q], work[p])]
                            ELSE work[q]]
        /\ reports' = [i \in DOMAIN reports |->
                          [reports[i] EXCEPT !.late = Overtaken(reports[i], work[p])]]
    BY <1>2 DEF Ingest
  <2>2. ASSUME NEW q \in Procs
        PROVE  /\ work'[q].pc = "compared" => RowsAreOf(work'[q])
               /\ work'[q].pc \in Analysing => AsRead(work[q])'
    <3>1. CASE q = p
      BY <2>1, <3>1 DEF Idle, Analysing
    <3>2. CASE q # p /\ work[q].pc \notin Analysing
      <4>1. work'[q] = work[q]
        BY <2>1, <3>2, OutsOfAnalyses DEF ShapesInv
      <4> QED
        BY <3>2, <4>1 DEF ReplayInv
    <3>3. CASE q # p /\ work[q].pc \in Analysing
      <4>1. PICK r, m : r = work[q] /\ m = work'[q]
        OBVIOUS
      <4>2. /\ m = [r EXCEPT !.late = Overtaken(r, work[p])]
            /\ Shape(r, clock, jobs) /\ r.pc \in Analysing
        BY <2>1, <3>3, <4>1, OutsOfAnalyses DEF ShapesInv
      <4>3. /\ m.late = Overtaken(r, work[p]) /\ m.pc = r.pc
            /\ \A f \in DOMAIN r \ {"late"} : m[f] = r[f]
        BY <4>2, MarkedShape
      <4>4. /\ m.outs = r.outs /\ m.stock = r.stock /\ m.asOf = r.asOf /\ m.known = r.known
            /\ r.known \in Int
        BY <4>2, <4>3 DEF Shape, Analysing, AnalysisFields
      <4>5. AsRead(r)
        BY <3>3, <4>1 DEF ReplayInv
      <4>6. AsRead(m)'
        BY <1>2, <4>3, <4>4, <4>5, OvertakenIsMarked
      <4> QED
        BY <4>1, <4>2, <4>3, <4>6 DEF Analysing
    <3> QED
      BY <3>1, <3>2, <3>3
  <2>3. ASSUME NEW i \in DOMAIN reports'
        PROVE  /\ AsRead(reports[i])' /\ IsFunction(reports'[i].outs) /\ reports'[i].known \in Int
               /\ reports'[i].synthesis = Synthesize(reports'[i].outs)
    <3>1. PICK r, m : r = reports[i] /\ m = reports'[i]
      OBVIOUS
    <3>2. i \in DOMAIN reports /\ m = [r EXCEPT !.late = Overtaken(r, work[p])] /\ DOMAIN r = ReportFields
      BY <2>1, <3>1 DEF ShapesInv
    <3>3. /\ m.outs = r.outs /\ m.stock = r.stock /\ m.asOf = r.asOf /\ m.known = r.known
          /\ m.late = Overtaken(r, work[p]) /\ m.synthesis = r.synthesis
      BY <3>2 DEF ReportFields
    <3>4. /\ AsRead(r) /\ IsFunction(r.outs) /\ r.known \in Int /\ r.synthesis = Synthesize(r.outs)
      BY <3>1, <3>2 DEF ReplayInv
    <3>5. AsRead(m)'
      BY <1>2, <3>3, <3>4, OvertakenIsMarked
    <3> QED
      BY <3>1, <3>3, <3>4, <3>5
  <2> QED
    BY <2>2, <2>3 DEF ReplayInv
<1> QED
  BY <1>1, <1>2

\* An analysis that has not begun reading, or that has only moved on.
LEMMA NothingRead ==
    ASSUME NEW stock, NEW asOf, NEW known, NEW fit, NEW ranking
    PROVE  AsRead(Analysis(stock, asOf, known, fit, ranking))
BY DEF AsRead, Analysis

LEMMA RequestReplay ==
    ASSUME ShapesInv, ReplayInv, NEW p \in Procs, NEW s \in ToSet(Stocks), NEW q \in Questions,
           Request(p, s, clock - q.back, clock + q.ahead, q.fit)
    PROVE  ReplayInv'
<1>1. PICK l : l = Analysis(s, clock - q.back, clock + q.ahead, q.fit, None)
  OBVIOUS
<1>2. /\ work' = [work EXCEPT ![p] = l]
      /\ facts' = facts /\ stories' = stories /\ reports' = reports
  BY <1>1 DEF Request
<1>3. AsRead(l)
  BY <1>1, NothingRead
<1>4. l.pc = "agents"
  BY <1>1 DEF Analysis
<1> QED
  BY <1>2, <1>3, <1>4, ReplayMoves

LEMMA RunAgentReplay ==
    ASSUME ShapesInv, ReplayInv, NEW p \in Procs, RunAgent(p)
    PROVE  ReplayInv'
<1>1. PICK a, got, pc : /\ a = Head(work[p].left)
                        /\ work' = [work EXCEPT ![p] = [Noted(work[p], a, got) EXCEPT !.pc = pc]]
                        /\ pc \in {"agents", "features"} /\ DOMAIN work[p] = AnalysisFields
                        /\ \/ got = Judged(Reading(a, work[p].stock, work[p].asOf, work[p].known))
                           \/ got = Unusable("failed")
  BY AgentStep
<1>2. PICK w, n, l : w = work[p] /\ n = Noted(w, a, got) /\ l = [n EXCEPT !.pc = pc]
  OBVIOUS
<1>3. /\ DOMAIN n = AnalysisFields /\ DOMAIN n.outs = DOMAIN w.outs \cup {a}
      /\ n.outs[a] = got /\ \A b \in DOMAIN w.outs \ {a} : n.outs[b] = w.outs[b]
      /\ n.stock = w.stock /\ n.asOf = w.asOf /\ n.known = w.known /\ n.late = w.late
  BY <1>1, <1>2, NotedFacts
<1>4. /\ l.pc = pc /\ l.outs = n.outs /\ l.stock = w.stock /\ l.asOf = w.asOf
      /\ l.known = w.known /\ l.late = w.late
  BY <1>2, <1>3 DEF AnalysisFields
<1>5. AsRead(w)
  BY <1>2 DEF ReplayInv, RunAgent, Analysing
<1>6. AsRead(l)
  <2> SUFFICES ASSUME NEW b \in DOMAIN l.outs
               PROVE  \/ b \in l.late \/ l.outs[b].status = "failed" \/ Reads[b] = "holdings"
                      \/ l.outs[b] = Judged(Reading(b, l.stock, l.asOf, l.known))
    BY DEF AsRead
  <2>1. CASE b = a
    <3>1. l.outs[b] = got
      BY <1>3, <1>4, <2>1
    <3> QED
      BY <1>1, <1>2, <1>4, <2>1, <3>1 DEF Unusable
  <2>2. CASE b # a
    BY <1>3, <1>4, <1>5, <2>2 DEF AsRead
  <2> QED
    BY <2>1, <2>2
<1>7. work' = [work EXCEPT ![p] = l]
  BY <1>1, <1>2
<1> QED
  BY <1>1, <1>4, <1>6, <1>7, ReplayMoves DEF RunAgent, Analysing

LEMMA MovedOn ==
    ASSUME NEW w, NEW l, AsRead(w), l.outs = w.outs, l.stock = w.stock, l.asOf = w.asOf,
           l.known = w.known, l.late = w.late
    PROVE  AsRead(l)
BY DEF AsRead

LEMMA StoreFeaturesReplay ==
    ASSUME ShapesInv, ReplayInv, NEW p \in Procs, StoreFeatures(p)
    PROVE  ReplayInv'
<1>1. PICK w, l : w = work[p] /\ l = [w EXCEPT !.pc = "agents"]
  OBVIOUS
<1>2. /\ work' = [work EXCEPT ![p] = l] \/ work' = [work EXCEPT ![p] = Idle]
      /\ facts' = facts /\ stories' = stories /\ reports' = reports
  BY <1>1 DEF StoreFeatures
<1>3. DOMAIN w = AnalysisFields /\ AsRead(w)
  BY <1>1 DEF ShapesInv, Shape, StoreFeatures, Analysing, ReplayInv
<1>4. /\ l.outs = w.outs /\ l.stock = w.stock /\ l.asOf = w.asOf /\ l.known = w.known
      /\ l.late = w.late /\ l.pc = "agents"
  BY <1>1, <1>3 DEF AnalysisFields
<1>5. AsRead(l)
  BY <1>3, <1>4, MovedOn
<1>6. CASE work' = [work EXCEPT ![p] = l]
  BY <1>2, <1>4, <1>5, <1>6, ReplayMoves
<1>7. CASE work' = [work EXCEPT ![p] = Idle]
  <2>1. PICK i : i = Idle
    OBVIOUS
  <2>2. i.pc = "idle" /\ work' = [work EXCEPT ![p] = i]
    BY <1>7, <2>1 DEF Idle
  <2> QED
    BY <1>2, <2>2, ReplayMoves DEF Analysing
<1> QED
  BY <1>2, <1>6, <1>7

LEMMA NarrateReplay ==
    ASSUME ShapesInv, ReplayInv, NEW p \in Procs, Narrate(p)
    PROVE  ReplayInv'
<1>1. PICK w, l : w = work[p] /\ l = work'[p]
  OBVIOUS
<1>2. /\ l.pc = "narrated" /\ \A f \in AnalysisFields \ {"pc"} : l[f] = w[f]
  BY <1>1, NarrateShapes
<1>3. l.outs = w.outs /\ l.stock = w.stock /\ l.asOf = w.asOf /\ l.known = w.known /\ l.late = w.late
  BY <1>2 DEF AnalysisFields
<1>4. AsRead(w)
  BY <1>1 DEF ReplayInv, Narrate, Analysing
<1>5. AsRead(l)
  BY <1>3, <1>4, MovedOn
<1>6. /\ work' = [work EXCEPT ![p] = l]
      /\ facts' = facts /\ stories' = stories /\ reports' = reports
  BY <1>1 DEF Narrate, ShapesInv
<1> QED
  BY <1>2, <1>5, <1>6, ReplayMoves

LEMMA StoreReportReplay ==
    ASSUME ShapesInv, ReplayInv, NEW p \in Procs, StoreReport(p)
    PROVE  ReplayInv'
<1>1. PICK w, l, row : /\ w = work[p] /\ l = (IF w.ranking = None THEN Idle ELSE w.ranking)
                       /\ row = ReportRow(w)
  OBVIOUS
<1>2. /\ work' = [work EXCEPT ![p] = l] /\ reports' = Append(reports, row)
      /\ facts' = facts /\ stories' = stories
  BY <1>1 DEF StoreReport
<1>3. /\ row.outs = w.outs /\ row.stock = w.stock /\ row.asOf = w.asOf /\ row.known = w.known
      /\ row.late = w.late /\ row.synthesis = Synthesize(w.outs)
  BY <1>1 DEF ReportRow
<1>4. AsRead(w) /\ Shape(w, clock, jobs) /\ w.pc = "narrated"
  BY <1>1 DEF ReplayInv, StoreReport, Analysing, ShapesInv
<1>5. IsFunction(w.outs) /\ w.known \in Int /\ (w.ranking # None => w.ranking.pc = "ranking")
  BY <1>4 DEF Shape, IsRanking, Analysing
<1>6. AsRead(row)
  BY <1>3, <1>4, MovedOn
<1>7. AsRead(row)'
  BY <1>2, <1>6, AsReadStays
<1>8. l.pc \in {"idle", "ranking"}
  BY <1>1, <1>5 DEF Idle
<1>9. ASSUME NEW q \in Procs
      PROVE  /\ work'[q].pc = "compared" => RowsAreOf(work'[q])
             /\ work'[q].pc \in Analysing => AsRead(work[q])'
  <2>1. CASE q = p
    BY <1>2, <1>8, <2>1 DEF Analysing, ShapesInv
  <2>2. CASE q # p
    <3>1. PICK m : m = work[q]
      OBVIOUS
    <3>2. m = work'[q] /\ (m.pc = "compared" => RowsAreOf(m)) /\ (m.pc \in Analysing => AsRead(m))
      BY <1>2, <2>2, <3>1 DEF ReplayInv, ShapesInv
    <3>3. m.pc \in Analysing => AsRead(m)'
      BY <1>2, <3>2, AsReadStays
    <3> QED
      BY <3>2, <3>3
  <2> QED
    BY <2>1, <2>2
<1>10. ASSUME NEW i \in DOMAIN reports'
       PROVE  /\ AsRead(reports[i])' /\ IsFunction(reports'[i].outs) /\ reports'[i].known \in Int
              /\ reports'[i].synthesis = Synthesize(reports'[i].outs)
  <2>0. /\ DOMAIN reports' = 1 .. Len(reports) + 1 /\ reports'[Len(reports) + 1] = row
        /\ \A k \in 1 .. Len(reports) : reports'[k] = reports[k]
        /\ DOMAIN reports = 1 .. Len(reports) /\ Len(reports) \in Nat
    BY <1>2, Appended DEF ShapesInv, IsTable
  <2>1. CASE i = Len(reports) + 1
    BY <1>3, <1>5, <1>7, <2>0, <2>1
  <2>2. CASE i \in DOMAIN reports
    <3>1. PICK r : r = reports[i]
      OBVIOUS
    <3>2. /\ AsRead(r) /\ IsFunction(r.outs) /\ r.known \in Int
          /\ r.synthesis = Synthesize(r.outs) /\ reports'[i] = r
      BY <2>0, <2>2, <3>1 DEF ReplayInv
    <3>3. AsRead(r)'
      BY <1>2, <3>2, AsReadStays
    <3> QED
      BY <3>2, <3>3
  <2> QED
    BY <2>0, <2>1, <2>2
<1> QED
  BY <1>9, <1>10 DEF ReplayInv

LEMMA CheckReportReplay ==
    ASSUME ShapesInv, ReplayInv, NEW p \in Procs, CheckReport(p)
    PROVE  ReplayInv'
<1>1. PICK w, next, begun : /\ w = work[p] /\ next = [w EXCEPT !.todo = Tail(w.todo)]
                            /\ begun = [next EXCEPT !.refreshed = TRUE]
  OBVIOUS
<1>2. PICK l : l = Analysis(Head(w.todo), w.asked, clock, FALSE, begun)
  OBVIOUS
<1>3. /\ work' = [work EXCEPT ![p] = l] \/ work' = [work EXCEPT ![p] = next]
      /\ facts' = facts /\ stories' = stories /\ reports' = reports
  BY <1>1, <1>2 DEF CheckReport
<1>4. IsRanking(w, clock) /\ w.todo # <<>>
  BY <1>1 DEF ShapesInv, Shape, CheckReport
<1>5. next.pc = "ranking"
  BY <1>1, <1>4, RankingMoves DEF IsRanking
<1>6. AsRead(l) /\ l.pc = "agents"
  <2>1. AsRead(l)
    BY <1>2, NothingRead
  <2>2. l.pc = "agents"
    BY <1>2 DEF Analysis
  <2> QED
    BY <2>1, <2>2
<1>7. CASE work' = [work EXCEPT ![p] = l]
  BY <1>3, <1>6, <1>7, ReplayMoves
<1>8. CASE work' = [work EXCEPT ![p] = next]
  BY <1>3, <1>5, <1>8, ReplayMoves DEF Analysing
<1> QED
  BY <1>3, <1>7, <1>8

LEMMA OthersReplay ==
    ASSUME ShapesInv, ReplayInv,
           \/ Tick \/ Trade \/ Redeploy \/ UNCHANGED vars
           \/ \E p \in Procs : Evaluate(p) \/ Die(p) \/ \E refresh \in BOOLEAN : StartRanking(p, refresh)
    PROVE  ReplayInv'
<1>1. /\ facts' = facts /\ stories' = stories /\ reports' = reports
      /\ DOMAIN work' = Procs
      /\ \A q \in Procs : work'[q] = work[q] \/ work'[q].pc \in {"idle", "ranking"}
  BY DEF Tick, Trade, Redeploy, vars, Evaluate, Die, StartRanking, Idle, ShapesInv
<1>2. ASSUME NEW q \in Procs
      PROVE  /\ work'[q].pc = "compared" => RowsAreOf(work'[q])
             /\ work'[q].pc \in Analysing => AsRead(work[q])'
  <2>1. CASE work'[q] = work[q]
    <3>1. PICK m : m = work[q]
      OBVIOUS
    <3>2. m = work'[q] /\ (m.pc = "compared" => RowsAreOf(m)) /\ (m.pc \in Analysing => AsRead(m))
      BY <2>1, <3>1 DEF ReplayInv
    <3>3. m.pc \in Analysing => AsRead(m)'
      BY <1>1, <3>2, AsReadStays
    <3> QED
      BY <3>2, <3>3
  <2>2. CASE work'[q].pc \in {"idle", "ranking"}
    BY <2>2 DEF Analysing
  <2> QED
    BY <1>1, <2>1, <2>2
<1>3. ASSUME NEW i \in DOMAIN reports'
      PROVE  /\ AsRead(reports[i])' /\ IsFunction(reports'[i].outs) /\ reports'[i].known \in Int
             /\ reports'[i].synthesis = Synthesize(reports'[i].outs)
  <2>1. PICK r : r = reports[i]
    OBVIOUS
  <2>2. /\ AsRead(r) /\ IsFunction(r.outs) /\ r.known \in Int
        /\ r.synthesis = Synthesize(r.outs) /\ reports'[i] = r
    BY <1>1, <2>1 DEF ReplayInv
  <2>3. AsRead(r)'
    BY <1>1, <2>2, AsReadStays
  <2> QED
    BY <2>2, <2>3
<1> QED
  BY <1>2, <1>3 DEF ReplayInv

LEMMA StepReplay == ShapesInv /\ ReplayInv /\ [Next]_vars => ReplayInv'
BY FetchReplay, CompareReplay, IngestReplay, RequestReplay, RunAgentReplay, StoreFeaturesReplay,
   NarrateReplay, StoreReportReplay, CheckReportReplay, OthersReplay, EmbedsAssumption
   DEF Next

LEMMA InitReplay == Init => ReplayInv
BY DEF Init, ReplayInv, Idle, Analysing

LEMMA ReplayHolds == Spec => [](ShapesInv /\ ReplayInv)
<1>1. Init => ShapesInv /\ ReplayInv
  BY InitShapes, InitReplay
<1>2. ShapesInv /\ ReplayInv /\ [Next]_vars => ShapesInv' /\ ReplayInv'
  BY StepShapes, StepReplay
<1> QED
  BY <1>1, <1>2, PTL DEF Spec

\* A report whose agents all read what was there to read, under the configuration and the
\* holdings of today, is reproduced by its replay (orchestrator/service.py, replay).
THEOREM ReplayIsReproduced == Spec => []ReplayReproduces
<1>1. ShapesInv /\ ReplayInv => ReplayReproduces
  <2> SUFFICES ASSUME ReplayInv, NEW i \in DOMAIN reports, NEW r, r = reports[i],
                      r.config = config, r.late = {},
                      \A a \in DOMAIN r.outs : /\ r.outs[a].status # "failed"
                                               /\ Reads[a] = "holdings" => r.outs[a] = Replayed(r)[a]
               PROVE  Reproduced(r)
    BY DEF ReplayReproduces
  <2>1. AsRead(r) /\ IsFunction(r.outs) /\ r.synthesis = Synthesize(r.outs)
    BY DEF ReplayInv
  <2>2. \A a \in DOMAIN r.outs : r.outs[a] = Judged(Reading(a, r.stock, r.asOf, r.known))
    BY <2>1 DEF AsRead, Replayed
  <2>3. Replayed(r) = r.outs
    BY <2>1, <2>2 DEF Replayed, IsFunction
  <2> QED
    BY <2>1, <2>3 DEF Reproduced
<1> QED
  BY <1>1, ReplayHolds, PTL

-----------------------------------------------------------------------------
(* A story counts once                                                     *)

\* A headline, stored or to be stored at time t when n jobs have begun.
IsStory(s, t, n) ==
    /\ DOMAIN s = StoryFields /\ s.title # None /\ s.value \in Int
    /\ s.published \in Int \cup {None} /\ s.retrieved \in Int
    /\ s.run \in 1 .. n /\ s.compared \in Nat /\ s.compared <= t /\ s.stored \in Nat

Told(s) == s.embedded /\ s.original = None

Pending(l) == l.pc = "compared" /\ l.store = "news"

\* The ingestion a worker is about to complete.
Runs(l) == IF l.pc = "fetched" THEN {l.run} ELSE IF Pending(l) THEN {r.run : r \in l.rows} ELSE {}

\* What a pending headline that will be told was compared with.
Compared(r, s) == \/ ~(Told(r) /\ s.embedded /\ s.stock = r.stock /\ Similar(r, s))
                  \/ r.compared <= s.stored \/ TooOld(s, r)

StoriesInv ==
    /\ \A s \in stories : IsStory(s, clock, jobs)
    /\ \A p \in Procs : Pending(work[p]) => \A r \in work[p].rows : IsStory(r, clock, jobs)
    /\ \A p, q \in Procs : p # q => Runs(work[p]) \cap Runs(work[q]) = {}
    /\ \A p \in Procs, s \in stories : s.run \notin Runs(work[p])
    /\ \A p \in Procs : Pending(work[p]) =>
         \A r, o \in work[p].rows : Told(r) /\ Told(o) /\ r # o => ~Similar(r, o)
    /\ \A p \in Procs : Pending(work[p]) =>
         \A r \in work[p].rows, s \in stories : Compared(r, s)
    /\ StoriesCountOnce

LEMMA SimilarIsSymmetric ==
    ASSUME NEW s, NEW t, s.published \in Int \cup {None}, t.published \in Int \cup {None},
           Similar(s, t)
    PROVE  Similar(t, s)
<1>1. {s.title, t.title} = {t.title, s.title} /\ {s.published, t.published} = {t.published, s.published}
  OBVIOUS
<1>2. CASE None \in {s.published, t.published}
  BY <1>1, <1>2 DEF Similar
<1>3. CASE None \notin {s.published, t.published}
  BY <1>1, <1>3, BoundsAssumption DEF Similar
<1> QED
  BY <1>2, <1>3

LEMMA StoryLasts ==
    ASSUME NEW s, NEW t \in Nat, NEW n \in Nat, NEW u \in Nat, NEW k \in Nat,
           IsStory(s, t, n), t <= u, n <= k
    PROVE  IsStory(s, u, k)
BY DEF IsStory

\* Headlines that are stored stay; what is being fetched or compared stays or ends.
LEMMA StoriesStay ==
    ASSUME ShapesInv, StoriesInv, stories' = stories, clock' \in Nat, jobs' \in Nat,
           clock <= clock', jobs <= jobs',
           \A q \in Procs : work'[q] = work[q] \/ work'[q].pc \notin {"fetched", "compared"}
    PROVE  StoriesInv'
<1>1. \A q \in Procs : \/ work'[q] = work[q]
                       \/ Runs(work'[q]) = {} /\ ~Pending(work'[q])
  BY DEF Runs, Pending
<1>2. \A s : IsStory(s, clock, jobs) => IsStory(s, clock', jobs')
  BY StoryLasts DEF ShapesInv
<1>3. StoriesCountOnce'
  BY DEF StoriesInv, StoriesCountOnce
<1> QED
  BY <1>1, <1>2, <1>3 DEF StoriesInv

LEMMA FetchStories ==
    ASSUME ShapesInv, StoriesInv, NEW p \in Procs, NEW answer \in Payloads, Fetch(p, answer)
    PROVE  StoriesInv'
<1>1. /\ stories' = stories /\ clock' = clock /\ jobs' = jobs + 1 /\ jobs \in Nat
      /\ \A q \in Procs \ {p} : work'[q] = work[q]
      /\ work'[p].pc = "fetched" /\ work'[p].run = jobs + 1
  BY DEF Fetch, ShapesInv
<1>2. Runs(work'[p]) = {jobs + 1} /\ ~Pending(work'[p])
  BY <1>1 DEF Runs, Pending
<1>3. \A s : IsStory(s, clock, jobs) => IsStory(s, clock', jobs')
  BY <1>1, StoryLasts DEF ShapesInv
<1>4. \A q \in Procs \ {p} : jobs + 1 \notin Runs(work[q])
  <2> SUFFICES ASSUME NEW q \in Procs, NEW n \in Runs(work[q]) PROVE n \in 1 .. jobs
    BY <1>1
  <2>1. CASE work[q].pc = "fetched"
    BY <2>1 DEF Runs, ShapesInv, Shape
  <2>2. CASE Pending(work[q])
    BY <2>2 DEF Runs, Pending, StoriesInv, IsStory
  <2> QED
    BY <2>1, <2>2 DEF Runs
<1>5. \A s \in stories : s.run # jobs + 1
  BY <1>1 DEF StoriesInv, IsStory
<1>6. StoriesCountOnce'
  BY <1>1 DEF StoriesInv, StoriesCountOnce
<1> QED
  BY <1>1, <1>2, <1>3, <1>4, <1>5, <1>6 DEF StoriesInv

LEMMA LeastOfNaturals ==
    ASSUME NEW K \in SUBSET Nat, K # {}
    PROVE  Min(K) \in K /\ \A i \in K : Min(K) <= i
<1>1. PICK m \in K : \A e \in K : ~(<<e, m>> \in OpToRel(<, Nat))
  BY NatLessThanWellFounded, WFMin, Zenon
<1>2. ASSUME NEW e \in K PROVE m <= e
  <2>1. ~(e < m) /\ e \in Nat /\ m \in Nat
    BY <1>1 DEF OpToRel
  <2> QED
    BY <2>1
<1> QED
  BY <1>2 DEF Min

\* A headline that is told resembles none it was compared with.
LEMMA OriginalResembles ==
    ASSUME NEW items, NEW i, NEW before \in SUBSET Nat, NEW pool,
           \A s \in pool : s.title # None, \A j \in before : items[j].title # None,
           Original(items, i, before, pool) = None
    PROVE  /\ \A s \in pool : ~Similar(items[i], s)
           /\ \A j \in before : ~Similar(items[i], items[j])
<1> DEFINE near == {s \in pool : Similar(items[i], s)}
           earlier == {j \in before : Similar(items[i], items[j])}
<1>1. near = {}
  <2> SUFFICES ASSUME near # {} PROVE FALSE
    OBVIOUS
  <2>1. (CHOOSE s \in near : TRUE) \in near
    OBVIOUS
  <2>2. Original(items, i, before, pool) = (CHOOSE s \in near : TRUE).title
    BY DEF Original
  <2> QED
    BY <2>1, <2>2
<1>2. earlier = {}
  <2> SUFFICES ASSUME earlier # {} PROVE FALSE
    OBVIOUS
  <2>1. Min(earlier) \in earlier
    BY LeastOfNaturals
  <2>2. Original(items, i, before, pool) = items[Min(earlier)].title
    BY <1>1 DEF Original
  <2> QED
    BY <2>1, <2>2
<1> QED
  BY <1>1, <1>2

\* A row of a batch: one headline of the answer, and what it resembles when it is told.
IsRowOf(r, i, fresh, answer, run, at, embedded) ==
    \E original :
       /\ r = StoryRow(answer.stock, answer.items[i], at, embedded, original, run)
       /\ embedded /\ original = None =>
            /\ \A j \in fresh : j < i => ~Similar(answer.items[i], answer.items[j])
            /\ \A s \in stories :
                  s.stock = answer.stock /\ s.embedded /\ Similar(answer.items[i], s)
                     => s.retrieved < clock - Recent

LEMMA BatchRows ==
    ASSUME ShapesInv, StoriesInv, NEW answer \in Payloads, answer.store = "news",
           NEW run, NEW at, NEW embedded \in BOOLEAN
    PROVE  \E fresh \in SUBSET DOMAIN answer.items :
             \A r \in NewStories(answer, run, at, embedded) :
               \E i \in fresh : IsRowOf(r, i, fresh, answer, run, at, embedded)
<1> DEFINE item(i) == answer.items[i]
           known == {s \in stories : s.stock = answer.stock}
           pool == {s \in known : s.embedded /\ s.retrieved >= clock - Recent}
           fresh == {i \in DOMAIN answer.items : \A s \in known : s.title # answer.items[i].title}
           before(i) == {j \in fresh : j < i}
           orig(i) == IF embedded THEN Original(answer.items, i, before(i), pool) ELSE None
<1>1. NewStories(answer, run, at, embedded)
        = {StoryRow(answer.stock, item(i), at, embedded, orig(i), run) : i \in fresh}
  BY DEF NewStories
<1>2. /\ fresh \subseteq DOMAIN answer.items /\ DOMAIN answer.items \subseteq Nat
      /\ \A i \in DOMAIN answer.items : answer.items[i].title # None
  BY PayloadsAssumption
<1>3. /\ \A s \in pool : s.title # None
      /\ \A s \in stories : s.retrieved \in Int
  BY DEF StoriesInv, IsStory
<1>4. ASSUME NEW i \in fresh, embedded, orig(i) = None
      PROVE  /\ \A j \in fresh : j < i => ~Similar(item(i), item(j))
             /\ \A s \in stories : s.stock = answer.stock /\ s.embedded /\ Similar(item(i), s)
                   => s.retrieved < clock - Recent
  <2>1. Original(answer.items, i, before(i), pool) = None
    BY <1>4
  <2>2. before(i) \in SUBSET Nat /\ \A j \in before(i) : answer.items[j].title # None
    BY <1>2
  <2>3. /\ \A s \in pool : ~Similar(answer.items[i], s)
        /\ \A j \in before(i) : ~Similar(answer.items[i], answer.items[j])
    <3> HIDE DEF pool, before
    <3> QED
      BY <1>3, <2>1, <2>2, OriginalResembles
  <2>4. ASSUME NEW s \in stories, s.stock = answer.stock, s.embedded, Similar(item(i), s)
        PROVE  s.retrieved < clock - Recent
    <3>1. s \notin pool /\ s.retrieved \in Int
      BY <1>3, <2>3, <2>4
    <3> QED
      BY <2>4, <3>1, BoundsAssumption DEF ShapesInv
  <2> QED
    BY <2>3, <2>4
<1> HIDE DEF orig, fresh
<1>5. ASSUME NEW r \in NewStories(answer, run, at, embedded)
      PROVE  \E i \in fresh : IsRowOf(r, i, fresh, answer, run, at, embedded)
  <2>1. PICK i \in fresh : r = StoryRow(answer.stock, item(i), at, embedded, orig(i), run)
    BY <1>1
  <2>2. IsRowOf(r, i, fresh, answer, run, at, embedded)
    BY <1>4, <2>1 DEF IsRowOf
  <2> QED
    BY <2>2
<1> QED
  BY <1>2, <1>5

\* Headlines of a batch that are told resemble none that was stored lately and none of the batch.
LEMMA BatchIsStories ==
    ASSUME ShapesInv, StoriesInv, NEW answer \in Payloads, answer.store = "news",
           NEW run \in 1 .. jobs, NEW at \in Int, NEW embedded \in BOOLEAN,
           NEW rows, rows = NewStories(answer, run, at, embedded)
    PROVE  /\ \A r \in rows : IsStory(r, clock, jobs) /\ r.run = run
           /\ \A r, o \in rows : Told(r) /\ Told(o) /\ r # o => ~Similar(r, o)
           /\ \A r \in rows, s \in stories : Compared(r, s)
<1>1. PICK fresh \in SUBSET DOMAIN answer.items :
         \A r \in rows : \E i \in fresh : IsRowOf(r, i, fresh, answer, run, at, embedded)
  BY BatchRows
<1>2. \A i \in fresh : /\ i \in Nat /\ answer.items[i].title # None /\ answer.items[i].value \in Int
                       /\ answer.items[i].published \in Int \cup {None}
  BY PayloadsAssumption
<1>3. ASSUME NEW r \in rows
      PROVE  /\ IsStory(r, clock, jobs) /\ r.run = run
             /\ \A s \in stories : Compared(r, s)
  <2>0. PICK i \in fresh : IsRowOf(r, i, fresh, answer, run, at, embedded)
    BY <1>1
  <2>1. PICK original :
               /\ r = StoryRow(answer.stock, answer.items[i], at, embedded, original, run)
               /\ embedded /\ original = None =>
                    /\ \A j \in fresh : j < i => ~Similar(answer.items[i], answer.items[j])
                    /\ \A s \in stories :
                          s.stock = answer.stock /\ s.embedded /\ Similar(answer.items[i], s)
                             => s.retrieved < clock - Recent
    BY <2>0 DEF IsRowOf
  <2>2. /\ DOMAIN r = StoryFields /\ r.stock = answer.stock /\ r.title = answer.items[i].title
        /\ r.value = answer.items[i].value /\ r.published = answer.items[i].published
        /\ r.retrieved = at /\ r.embedded = embedded /\ r.original = original /\ r.run = run
        /\ r.compared = clock /\ r.stored = clock
    BY <2>1, StoryRowFacts
  <2>3. IsStory(r, clock, jobs)
    BY <1>2, <2>2 DEF IsStory, ShapesInv
  <2>4. ASSUME NEW s \in stories PROVE Compared(r, s)
    <3>1. CASE Told(r) /\ s.embedded /\ s.stock = r.stock /\ Similar(r, s)
      <4>1. Similar(answer.items[i], s)
        BY <2>2, <3>1 DEF Similar
      <4>2. s.retrieved < clock - Recent
        BY <2>1, <2>2, <3>1, <4>1 DEF Told
      <4> QED
        BY <2>2, <4>2 DEF Compared, TooOld
    <3> QED
      BY <3>1 DEF Compared
  <2> QED
    BY <2>2, <2>3, <2>4
<1>4. ASSUME NEW r \in rows, NEW o \in rows, Told(r), Told(o), r # o, Similar(r, o) PROVE FALSE
  <2>1a. PICK i \in fresh : IsRowOf(r, i, fresh, answer, run, at, embedded)
    BY <1>1
  <2>1. PICK f :
               /\ r = StoryRow(answer.stock, answer.items[i], at, embedded, f, run)
               /\ embedded /\ f = None =>
                    /\ \A k \in fresh : k < i => ~Similar(answer.items[i], answer.items[k])
                    /\ \A s \in stories :
                          s.stock = answer.stock /\ s.embedded /\ Similar(answer.items[i], s)
                             => s.retrieved < clock - Recent
    BY <2>1a DEF IsRowOf
  <2>2a. PICK j \in fresh : IsRowOf(o, j, fresh, answer, run, at, embedded)
    BY <1>1
  <2>2. PICK g :
               /\ o = StoryRow(answer.stock, answer.items[j], at, embedded, g, run)
               /\ embedded /\ g = None =>
                    /\ \A k \in fresh : k < j => ~Similar(answer.items[j], answer.items[k])
                    /\ \A s \in stories :
                          s.stock = answer.stock /\ s.embedded /\ Similar(answer.items[j], s)
                             => s.retrieved < clock - Recent
    BY <2>2a DEF IsRowOf
  <2>3. /\ r.title = answer.items[i].title /\ r.published = answer.items[i].published
        /\ r.embedded = embedded /\ r.original = f
        /\ o.title = answer.items[j].title /\ o.published = answer.items[j].published
        /\ o.embedded = embedded /\ o.original = g
    BY <2>1, <2>2, StoryRowFacts
  <2>4. embedded /\ f = None /\ g = None
    BY <1>4, <2>3 DEF Told
  <2>5. Similar(answer.items[i], answer.items[j])
    BY <1>4, <2>3 DEF Similar
  <2>6. Similar(answer.items[j], answer.items[i])
    BY <1>2, <2>5, SimilarIsSymmetric
  <2>7. i # j
    BY <1>4, <2>1, <2>2, <2>4
  <2> QED
    BY <1>2, <2>1, <2>2, <2>4, <2>5, <2>6, <2>7
<1> QED
  BY <1>3, <1>4

LEMMA CompareStories ==
    ASSUME ShapesInv, StoriesInv, NEW p \in Procs, NEW embedded \in BOOLEAN, Compare(p, embedded)
    PROVE  StoriesInv'
<1> DEFINE w == work[p]
           rows == IF w.answer.store = "news" THEN NewStories(w.answer, w.run, w.retrieved, embedded)
                   ELSE NewFacts(w.answer, w.retrieved)
           l == [pc |-> "compared", store |-> w.answer.store, retrieved |-> w.retrieved, rows |-> rows]
<1>1. /\ w.pc = "fetched" /\ w.answer \in Payloads /\ w.run \in 1 .. jobs /\ w.retrieved \in Int
  BY DEF ShapesInv, Shape, Compare
<1>2. /\ work' = [work EXCEPT ![p] = l] /\ stories' = stories /\ clock' = clock /\ jobs' = jobs
      /\ DOMAIN work = Procs
  BY DEF Compare, ShapesInv
<1>3. /\ \A q \in Procs \ {p} : work'[q] = work[q]
      /\ work'[p].pc = "compared" /\ work'[p].store = w.answer.store /\ work'[p].rows = rows
  BY <1>2
<1>4. Runs(work[p]) = {w.run}
  BY <1>1 DEF Runs
<1>5. StoriesCountOnce'
  BY <1>2 DEF StoriesInv, StoriesCountOnce
<1>6. CASE w.answer.store = "news"
  <2>1. /\ \A r \in rows : IsStory(r, clock, jobs) /\ r.run = w.run
        /\ \A r, o \in rows : Told(r) /\ Told(o) /\ r # o => ~Similar(r, o)
        /\ \A r \in rows, s \in stories : Compared(r, s)
    BY <1>1, <1>6, BatchIsStories
  <2> HIDE DEF rows
  <2>2. Runs(work'[p]) \subseteq Runs(work[p])
    BY <1>3, <1>4, <1>6, <2>1 DEF Runs, Pending
  <2>3. \A s, r : Compared(r, s) <=> Compared(r, s)'
    BY DEF Compared
  <2>4. \A q \in Procs \ {p} : Runs(work'[q]) = Runs(work[q]) /\ (Pending(work'[q]) <=> Pending(work[q]))
    BY <1>3
  <2> QED
    BY <1>2, <1>3, <1>5, <2>1, <2>2, <2>4 DEF StoriesInv
<1>7. CASE w.answer.store # "news"
  <2>1. Runs(work'[p]) = {} /\ ~Pending(work'[p])
    BY <1>3, <1>7 DEF Runs, Pending
  <2> QED
    BY <1>2, <1>3, <1>5, <2>1 DEF StoriesInv
<1> QED
  BY <1>6, <1>7

\* A row once it is stored.
LEMMA StoredRow ==
    ASSUME NEW r, NEW t \in Nat, NEW n, IsStory(r, t, n)
    PROVE  LET s == [r EXCEPT !.stored = t] IN
           /\ IsStory(s, t, n) /\ s.stored = t
           /\ \A f \in StoryFields \ {"stored"} : s[f] = r[f]
           /\ s.title = r.title /\ s.published = r.published /\ s.stock = r.stock
           /\ s.embedded = r.embedded /\ s.original = r.original /\ s.run = r.run
           /\ s.compared = r.compared /\ s.retrieved = r.retrieved /\ s.value = r.value
<1> DEFINE s == [r EXCEPT !.stored = t]
<1>1. DOMAIN r = StoryFields
  BY DEF IsStory
<1>2. DOMAIN s = StoryFields /\ s.stored = t /\ \A f \in StoryFields \ {"stored"} : s[f] = r[f]
  BY <1>1 DEF StoryFields
<1> HIDE DEF s
<1>3. /\ s.title = r.title /\ s.published = r.published /\ s.stock = r.stock
      /\ s.embedded = r.embedded /\ s.original = r.original /\ s.run = r.run
      /\ s.compared = r.compared /\ s.retrieved = r.retrieved /\ s.value = r.value
  BY <1>2 DEF StoryFields
<1>4. IsStory(s, t, n)
  BY <1>2, <1>3 DEF IsStory
<1> QED
  BY <1>2, <1>3, <1>4 DEF s

\* Two headlines of one story, the first of them stored by this ingestion.
LEMMA NewAndOld ==
    ASSUME ShapesInv, StoriesInv, NEW p \in Procs, Pending(work[p]),
           NEW r \in work[p].rows, NEW s \in stories,
           NEW n, n.title = r.title, n.published = r.published, n.stock = r.stock,
           n.embedded = r.embedded, n.original = r.original, n.run = r.run,
           n.compared = r.compared, n.retrieved = r.retrieved, n.stored = clock,
           n.embedded, s.embedded, n.stock = s.stock, n.original = None, Similar(n, s)
    PROVE  n.run # s.run /\ (Overlapped(n, s) \/ TooOld(s, n))
<1>1. r.run \in Runs(work[p])
  BY DEF Runs, Pending
<1>2. n.run # s.run
  BY <1>1 DEF StoriesInv
<1>3. Similar(r, s)
  BY DEF Similar
<1>4. Compared(r, s) /\ IsStory(s, clock, jobs)
  BY DEF StoriesInv
<1>5. r.compared <= s.stored \/ TooOld(s, r)
  BY <1>3, <1>4 DEF Compared, Told
<1>6. CASE r.compared <= s.stored
  BY <1>2, <1>4, <1>6 DEF Overlapped, IsStory
<1>7. CASE TooOld(s, r)
  BY <1>2, <1>7 DEF TooOld
<1> QED
  BY <1>5, <1>6, <1>7

LEMMA IngestStories ==
    ASSUME ShapesInv, StoriesInv, NEW p \in Procs, Ingest(p)
    PROVE  StoriesInv'
<1>0. \A q \in Procs : "outs" \in DOMAIN work[q] => work[q].pc \in Analysing
  BY OutsOfAnalyses DEF ShapesInv
<1>0a. /\ clock' = clock /\ jobs' = jobs /\ clock \in Nat /\ jobs \in Nat
       /\ \A q \in Procs : \/ work'[q] = work[q] /\ q # p
                           \/ work'[q].pc \notin {"fetched", "compared"}
  <2>1. ASSUME NEW q \in Procs
        PROVE  \/ work'[q] = work[q] /\ q # p
               \/ work'[q].pc \notin {"fetched", "compared"}
    <3>1. CASE Taken(work[p]) \/ q = p
      BY <3>1 DEF Ingest, Idle, ShapesInv
    <3>2. CASE ~Taken(work[p]) /\ q # p /\ "outs" \in DOMAIN work[q]
      <4>1. /\ work'[q] = [work[q] EXCEPT !.late = Overtaken(work[q], work[p])]
            /\ work[q].pc \in Analysing /\ Shape(work[q], clock, jobs)
        BY <1>0, <3>2 DEF Ingest, ShapesInv
      <4>2. work'[q].pc = work[q].pc
        BY <4>1, MarkedShape
      <4> QED
        BY <4>1, <4>2 DEF Analysing
    <3>3. CASE ~Taken(work[p]) /\ q # p /\ "outs" \notin DOMAIN work[q]
      BY <3>3 DEF Ingest
    <3> QED
      BY <3>1, <3>2, <3>3
  <2> QED
    BY <2>1 DEF Ingest, ShapesInv
<1>1. CASE Taken(work[p]) \/ ~Pending(work[p])
  <2>1. stories' = stories
    BY <1>1 DEF Ingest, Pending
  <2> QED
    BY <1>0a, <2>1, StoriesStay
<1>2. CASE ~Taken(work[p]) /\ Pending(work[p])
  <2> DEFINE w == work[p]
             stored(r) == [r EXCEPT !.stored = clock]
  <2>1. stories' = stories \cup {stored(r) : r \in w.rows}
    BY <1>2 DEF Ingest, Pending
  <2>2. \A r \in w.rows : IsStory(r, clock, jobs)
    BY <1>2 DEF StoriesInv
  <2>3. ASSUME NEW n \in stories', n \notin stories
        PROVE  \E r \in w.rows : /\ n = stored(r) /\ IsStory(n, clock, jobs) /\ n.stored = clock
                                 /\ n.title = r.title /\ n.published = r.published /\ n.stock = r.stock
                                 /\ n.embedded = r.embedded /\ n.original = r.original /\ n.run = r.run
                                 /\ n.compared = r.compared /\ n.retrieved = r.retrieved
    <3>1. PICK r \in w.rows : n = stored(r)
      BY <2>1, <2>3
    <3>2. IsStory(r, clock, jobs)
      BY <2>2
    <3>3. LET s == stored(r) IN
          /\ IsStory(s, clock, jobs) /\ s.stored = clock
          /\ s.title = r.title /\ s.published = r.published /\ s.stock = r.stock
          /\ s.embedded = r.embedded /\ s.original = r.original /\ s.run = r.run
          /\ s.compared = r.compared /\ s.retrieved = r.retrieved
      BY <1>0a, <3>2, StoredRow
    <3> HIDE DEF stored
    <3> QED
      BY <3>1, <3>3
  <2> HIDE DEF stored
  <2>4. \A s \in stories' : IsStory(s, clock, jobs)
    BY <2>3 DEF StoriesInv
  <2>5. \A q \in Procs : \/ work'[q] = work[q] /\ q # p
                         \/ Runs(work'[q]) = {} /\ ~Pending(work'[q])
    BY <1>0a DEF Runs, Pending
  <2>6. ASSUME NEW q \in Procs, NEW s \in stories' PROVE s.run \notin Runs(work'[q])
    <3>1. CASE s \in stories
      BY <2>5, <3>1 DEF StoriesInv
    <3>2. CASE s \notin stories
      <4>1. PICK r \in w.rows : s.run = r.run
        BY <2>3, <3>2
      <4>2. s.run \in Runs(work[p])
        BY <1>2, <4>1 DEF Runs, Pending
      <4> QED
        BY <2>5, <4>2 DEF StoriesInv
    <3> QED
      BY <3>1, <3>2
  <2>7. ASSUME NEW q \in Procs, Pending(work'[q]), NEW r \in work'[q].rows, NEW s \in stories'
        PROVE  Compared(r, s)
    <3>1. work'[q] = work[q] /\ IsStory(r, clock, jobs)
      BY <2>5, <2>7 DEF StoriesInv
    <3>2. CASE s \in stories
      BY <2>7, <3>1, <3>2 DEF StoriesInv
    <3>3. CASE s \notin stories
      BY <2>3, <3>1, <3>3 DEF Compared, IsStory
    <3> QED
      BY <3>2, <3>3
  <2>8. ASSUME NEW s \in stories', NEW t \in stories', s # t, Told(s), Told(t), s.stock = t.stock, Similar(s, t)
        PROVE  s.run # t.run /\ (Overlapped(s, t) \/ TooOld(s, t) \/ TooOld(t, s))
    <3>1. CASE s \in stories /\ t \in stories
      BY <2>8, <3>1 DEF StoriesInv, StoriesCountOnce, Told
    <3>2. CASE s \notin stories /\ t \in stories
      BY <1>2, <2>3, <2>8, <3>2, NewAndOld DEF Told
    <3>3. CASE s \in stories /\ t \notin stories
      <4>1. Similar(t, s)
        BY <2>4, <2>8, SimilarIsSymmetric DEF IsStory
      <4>2. t.run # s.run /\ (Overlapped(t, s) \/ TooOld(s, t))
        BY <1>2, <2>3, <2>8, <3>3, <4>1, NewAndOld DEF Told
      <4> QED
        BY <4>2 DEF Overlapped
    <3>4. CASE s \notin stories /\ t \notin stories
      <4>1. PICK r \in w.rows : /\ s = stored(r) /\ s.title = r.title /\ s.published = r.published
                                /\ s.embedded = r.embedded /\ s.original = r.original
        BY <2>3, <3>4
      <4>2. PICK o \in w.rows : /\ t = stored(o) /\ t.title = o.title /\ t.published = o.published
                                /\ t.embedded = o.embedded /\ t.original = o.original
        BY <2>3, <3>4
      <4>3. r # o /\ Told(r) /\ Told(o)
        BY <2>8, <4>1, <4>2 DEF Told
      <4>4. Similar(r, o)
        BY <2>8, <4>1, <4>2 DEF Similar
      <4> QED
        BY <1>2, <4>3, <4>4 DEF StoriesInv
    <3> QED
      BY <3>1, <3>2, <3>3, <3>4
  <2>9. StoriesCountOnce'
    BY <2>8 DEF StoriesCountOnce, Told
  <2> QED
    BY <1>0a, <2>4, <2>5, <2>6, <2>7, <2>9 DEF StoriesInv
<1> QED
  BY <1>1, <1>2

LEMMA RestStories ==
    ASSUME ShapesInv, StoriesInv,
           \/ Tick \/ Trade \/ Redeploy \/ UNCHANGED vars
           \/ \E p \in Procs :
                \/ \E s \in ToSet(Stocks), q \in Questions :
                      Request(p, s, clock - q.back, clock + q.ahead, q.fit)
                \/ RunAgent(p) \/ StoreFeatures(p) \/ Narrate(p) \/ StoreReport(p)
                \/ \E refresh \in BOOLEAN : StartRanking(p, refresh)
                \/ CheckReport(p) \/ Evaluate(p) \/ Die(p)
    PROVE  StoriesInv'
<1>1. CASE Tick \/ Trade \/ Redeploy \/ UNCHANGED vars
  BY <1>1, StoriesStay DEF Tick, Trade, Redeploy, vars, Idle, ShapesInv
<1>2. ASSUME NEW p \in Procs,
             \/ \E s \in ToSet(Stocks), q \in Questions :
                   Request(p, s, clock - q.back, clock + q.ahead, q.fit)
             \/ RunAgent(p) \/ StoreFeatures(p) \/ Narrate(p) \/ StoreReport(p)
             \/ \E refresh \in BOOLEAN : StartRanking(p, refresh)
             \/ CheckReport(p) \/ Evaluate(p) \/ Die(p)
      PROVE  StoriesInv'
  <2>1. /\ stories' = stories /\ clock' = clock /\ clock \in Nat
        /\ jobs' \in Nat /\ jobs <= jobs' /\ DOMAIN work = Procs
        /\ \A q \in Procs \ {p} : work'[q] = work[q]
    <3>1. \E l : work' = [work EXCEPT ![p] = l]
      BY <1>2 DEF Request, RunAgent, StoreFeatures, Narrate, StoreReport, StartRanking, CheckReport,
         Evaluate, Die
    <3>2. stories' = stories /\ clock' = clock /\ (jobs' = jobs \/ jobs' = jobs + 1)
      BY <1>2 DEF Request, RunAgent, StoreFeatures, Narrate, StoreReport, StartRanking, CheckReport,
         Evaluate, Die
    <3> QED
      BY <3>1, <3>2 DEF ShapesInv
  <2>2. work'[p].pc \notin {"fetched", "compared"}
    <3>1. CASE \E s \in ToSet(Stocks), q \in Questions :
                   Request(p, s, clock - q.back, clock + q.ahead, q.fit)
      BY <2>1, <3>1 DEF Request, Analysis
    <3>2. CASE RunAgent(p)
      <4>1. PICK a, got, pc : /\ work' = [work EXCEPT ![p] = [Noted(work[p], a, got) EXCEPT !.pc = pc]]
                              /\ pc \in {"agents", "features"} /\ DOMAIN work[p] = AnalysisFields
        BY <3>2, AgentStep
      <4>2. DOMAIN Noted(work[p], a, got) = AnalysisFields
        BY <4>1, NotedFacts
      <4>3. work'[p] = [Noted(work[p], a, got) EXCEPT !.pc = pc]
        BY <2>1, <4>1
      <4>4. work'[p].pc = pc
        BY <4>2, <4>3 DEF AnalysisFields
      <4> QED
        BY <4>1, <4>4
    <3>3. CASE StoreFeatures(p)
      <4>1. "pc" \in DOMAIN work[p]
        BY <3>3 DEF StoreFeatures, ShapesInv, Shape, Analysing, AnalysisFields
      <4> QED
        BY <2>1, <3>3, <4>1 DEF StoreFeatures, Idle
    <3>4. CASE Narrate(p)
      BY <3>4, NarrateShapes
    <3>5. CASE StoreReport(p)
      <4>1. work[p].ranking # None => work[p].ranking.pc = "ranking"
        BY <3>5 DEF StoreReport, ShapesInv, Shape, Analysing, IsRanking
      <4> QED
        BY <2>1, <3>5, <4>1 DEF StoreReport, Idle
    <3>6. CASE \E refresh \in BOOLEAN : StartRanking(p, refresh)
      BY <2>1, <3>6 DEF StartRanking
    <3>7. CASE CheckReport(p)
      <4>1. IsRanking(work[p], clock) /\ work[p].todo # <<>>
        BY <3>7 DEF ShapesInv, Shape, CheckReport
      <4>2. [work[p] EXCEPT !.todo = Tail(work[p].todo)].pc = "ranking"
        BY <4>1 DEF IsRanking
      <4> QED
        BY <2>1, <3>7, <4>2 DEF CheckReport, Analysis
    <3>8. CASE Evaluate(p) \/ Die(p)
      BY <2>1, <3>8 DEF Evaluate, Die, Idle
    <3> QED
      BY <1>2, <3>1, <3>2, <3>3, <3>4, <3>5, <3>6, <3>7, <3>8
  <2> QED
    BY <2>1, <2>2, StoriesStay
<1> QED
  BY <1>1, <1>2

LEMMA StepStories == ShapesInv /\ StoriesInv /\ [Next]_vars => StoriesInv'
BY FetchStories, CompareStories, IngestStories, RestStories, EmbedsAssumption DEF Next

LEMMA InitStories == Init => StoriesInv
BY DEF Init, StoriesInv, StoriesCountOnce, Runs, Pending, Idle

LEMMA StoriesHold == Spec => [](ShapesInv /\ StoriesInv)
<1>1. Init => ShapesInv /\ StoriesInv
  BY InitShapes, InitStories
<1>2. ShapesInv /\ StoriesInv /\ [Next]_vars => ShapesInv' /\ StoriesInv'
  BY StepShapes, StepStories
<1> QED
  BY <1>1, <1>2, PTL DEF Spec

\* Two headlines of one story are both told only when their ingestions overlapped or the
\* older one was out of the comparison's reach (news/service.py, ingest_news).
THEOREM StoriesAreToldOnce == Spec => []StoriesCountOnce
<1>1. ShapesInv /\ StoriesInv => StoriesCountOnce
  BY DEF StoriesInv
<1> QED
  BY <1>1, StoriesHold, PTL

-----------------------------------------------------------------------------
(* A ranking that refreshes finds what it asked for                         *)

\* A report a ranking may use for a stock.
HasReport(s, l) ==
    \E i \in DOMAIN reports :
       /\ reports[i].stock = s /\ reports[i].created >= l.asked - MaxAge
       /\ reports[i].created <= l.asked \/ l.refreshed

\* Every stock that is not left to check, and not being analysed, has one.
Refreshed(l, S) == l.refresh => \A s \in ToSet(Stocks) \ (ToSet(l.todo) \cup S) : HasReport(s, l)

Ranks(l) ==
    /\ l.pc = "ranking" => Refreshed(l, {})
    /\ l.pc \in Analysing /\ l.ranking # None =>
         /\ Refreshed(l.ranking, {l.stock}) /\ l.ranking.refreshed
         /\ l.pc = "narrated" => l.ranking.asked <= l.created

RankInv ==
    /\ \A p \in Procs : Ranks(work[p])
    /\ \A i \in DOMAIN reports : reports[i].created \in 0 .. clock
    /\ IsTable(rankings)
    /\ \A i \in DOMAIN rankings :
         rankings[i].refresh => \A s \in DOMAIN rankings[i].picks : rankings[i].picks[s] \in DOMAIN reports
    /\ RankingSeesRefresh

\* Reports keep their positions, their stocks and their instants.
ReportsKept ==
    /\ DOMAIN reports \subseteq DOMAIN reports'
    /\ \A i \in DOMAIN reports : /\ reports'[i].stock = reports[i].stock
                                 /\ reports'[i].created = reports[i].created
    /\ \A i \in DOMAIN reports' : reports'[i].created \in 0 .. clock'

LEMMA HasReportLasts ==
    ASSUME ReportsKept, NEW s, NEW l, NEW m, m.asked = l.asked, l.refreshed => m.refreshed,
           HasReport(s, l)
    PROVE  HasReport(s, m)'
BY DEF ReportsKept, HasReport

LEMMA RefreshedLasts ==
    ASSUME ReportsKept, NEW l, NEW S, Refreshed(l, S)
    PROVE  Refreshed(l, S)'
<1>1. \A s : HasReport(s, l) => HasReport(s, l)'
  BY HasReportLasts
<1> QED
  BY <1>1 DEF Refreshed

LEMMA RanksLasts ==
    ASSUME ReportsKept, NEW l, Ranks(l)
    PROVE  Ranks(l)'
<1>1. \A m, S : Refreshed(m, S) => Refreshed(m, S)'
  BY RefreshedLasts
<1> QED
  BY <1>1 DEF Ranks

\* An analysis that moves on keeps its ranking.
LEMMA RanksMovesOn ==
    ASSUME NEW w, NEW l, Ranks(w), w.pc \in Analysing, l.pc \in Analysing,
           l.ranking = w.ranking, l.stock = w.stock,
           l.pc = "narrated" => \/ w.pc = "narrated" /\ l.created = w.created
                                \/ l.ranking = None \/ l.ranking.asked <= l.created
    PROVE  Ranks(l)
BY DEF Ranks, Analysing

LEMMA RankKeeps ==
    ASSUME RankInv, ReportsKept, rankings' = rankings,
           \A q \in Procs : Ranks(work[q])'
    PROVE  RankInv'
<1>1. RankingSeesRefresh'
  <2> SUFFICES ASSUME NEW i \in DOMAIN rankings', NEW k, k = rankings'[i], k.refresh,
                      NEW s \in DOMAIN k.picks
               PROVE  /\ k.picks[s] # None
                      /\ reports'[k.picks[s]].created \in k.asked - MaxAge .. k.asOf
    BY DEF RankingSeesRefresh
  <2>1. /\ k.picks[s] \in DOMAIN reports /\ k.picks[s] # None
        /\ reports[k.picks[s]].created \in k.asked - MaxAge .. k.asOf
    BY DEF RankInv, RankingSeesRefresh
  <2> QED
    BY <2>1 DEF ReportsKept
<1> QED
  BY <1>1 DEF RankInv, ReportsKept

LEMMA OneRanks ==
    ASSUME ShapesInv, RankInv, NEW p \in Procs, NEW l, work' = [work EXCEPT ![p] = l],
           ReportsKept, rankings' = rankings, Ranks(l)'
    PROVE  RankInv'
<1>1. ASSUME NEW q \in Procs PROVE Ranks(work[q])'
  <2>1. CASE q = p
    <3>1. work'[q] = l
      BY <2>1 DEF ShapesInv
    <3> QED
      BY <3>1
  <2>2. CASE q # p
    <3>1. PICK m : m = work[q]
      OBVIOUS
    <3>2. m = work'[q] /\ Ranks(m)
      BY <2>2, <3>1 DEF RankInv, ShapesInv
    <3>3. Ranks(m)'
      BY <3>2, RanksLasts
    <3> QED
      BY <3>2, <3>3
  <2> QED
    BY <2>1, <2>2
<1> QED
  BY <1>1, RankKeeps

LEMMA ReportsSame ==
    ASSUME RankInv, reports' = reports, clock \in Nat, clock' \in Nat, clock <= clock'
    PROVE  ReportsKept
BY DEF ReportsKept, RankInv

\* One worker goes on with what is no matter of a ranking, or moves on with its analysis.
LEMMA OtherRanks ==
    ASSUME ShapesInv, RankInv, NEW p \in Procs, NEW l, work' = [work EXCEPT ![p] = l],
           reports' = reports, clock' = clock, rankings' = rankings, Ranks(l)
    PROVE  RankInv'
<1>1. ReportsKept
  BY ReportsSame DEF ShapesInv
<1>2. Ranks(l)'
  BY <1>1, RanksLasts
<1> QED
  BY <1>1, <1>2, OneRanks

LEMMA IngestRank ==
    ASSUME ShapesInv, RankInv, NEW p \in Procs, Ingest(p)
    PROVE  RankInv'
<1>0. clock' = clock /\ rankings' = rankings /\ clock \in Nat
  BY DEF Ingest, ShapesInv
<1>1. CASE Taken(work[p])
  <2>1. PICK l : l = Idle
    OBVIOUS
  <2>2. work' = [work EXCEPT ![p] = l] /\ l.pc = "idle" /\ reports' = reports
    BY <1>1, <2>1 DEF Ingest, Idle
  <2>3. Ranks(l)
    BY <2>2 DEF Ranks, Analysing
  <2> QED
    BY <1>0, <2>2, <2>3, OtherRanks
<1>2. CASE ~Taken(work[p])
  <2>1. /\ work' = [q \in Procs |-> IF q = p THEN Idle
                       ELSE IF "outs" \in DOMAIN work[q]
                            THEN [work[q] EXCEPT !.late = Overtaken(work[q], work[p])]
                            ELSE work[q]]
        /\ reports' = [i \in DOMAIN reports |->
                          [reports[i] EXCEPT !.late = Overtaken(reports[i], work[p])]]
    BY <1>2 DEF Ingest
  <2>2. ReportsKept
    <3>1. ASSUME NEW i \in DOMAIN reports
          PROVE  reports'[i].stock = reports[i].stock /\ reports'[i].created = reports[i].created
      BY <2>1 DEF ShapesInv, ReportFields
    <3> QED
      BY <1>0, <2>1, <3>1 DEF ReportsKept, RankInv
  <2>3. ASSUME NEW q \in Procs PROVE Ranks(work[q])'
    <3>1. PICK w, l : w = work[q] /\ l = work'[q]
      OBVIOUS
    <3>2. Ranks(w) /\ Shape(w, clock, jobs)
      BY <3>1 DEF RankInv, ShapesInv
    <3>3. CASE q = p
      BY <2>1, <3>1, <3>3 DEF Idle, Ranks, Analysing
    <3>4. CASE q # p /\ w.pc \notin Analysing
      <4>1. l = w
        BY <2>1, <3>1, <3>2, <3>4, OutsOfAnalyses
      <4>2. Ranks(l)'
        BY <2>2, <3>2, <4>1, RanksLasts
      <4> QED
        BY <3>1, <4>2
    <3>5. CASE q # p /\ w.pc \in Analysing
      <4>1. l = [w EXCEPT !.late = Overtaken(w, work[p])]
        BY <2>1, <3>1, <3>2, <3>5, OutsOfAnalyses
      <4>2. l.pc = w.pc /\ \A f \in DOMAIN w \ {"late"} : l[f] = w[f]
        BY <3>2, <3>5, <4>1, MarkedShape
      <4>3. l.ranking = w.ranking /\ l.stock = w.stock /\ (w.pc = "narrated" => l.created = w.created)
        BY <3>2, <3>5, <4>2 DEF Shape, Analysing, AnalysisFields
      <4>4. Ranks(l)
        BY <3>2, <3>5, <4>2, <4>3, RanksMovesOn
      <4>5. Ranks(l)'
        BY <2>2, <4>4, RanksLasts
      <4> QED
        BY <3>1, <4>5
    <3> QED
      BY <3>3, <3>4, <3>5
  <2> QED
    BY <1>0, <2>2, <2>3, RankKeeps
<1> QED
  BY <1>1, <1>2

LEMMA RequestRank ==
    ASSUME ShapesInv, RankInv, NEW p \in Procs, NEW s \in ToSet(Stocks), NEW q \in Questions,
           Request(p, s, clock - q.back, clock + q.ahead, q.fit)
    PROVE  RankInv'
<1>1. PICK l : l = Analysis(s, clock - q.back, clock + q.ahead, q.fit, None)
  OBVIOUS
<1>2. l.pc = "agents" /\ l.ranking = None
  BY <1>1 DEF Analysis
<1>3. Ranks(l)
  BY <1>2 DEF Ranks, Analysing
<1> QED
  BY <1>1, <1>3, OtherRanks DEF Request

LEMMA AnalysingRank ==
    ASSUME ShapesInv, RankInv, NEW p \in Procs,
           RunAgent(p) \/ StoreFeatures(p) \/ Narrate(p)
    PROVE  RankInv'
<1>1. PICK w, l : w = work[p] /\ l = work'[p]
  OBVIOUS
<1>2. /\ work' = [work EXCEPT ![p] = l]
      /\ reports' = reports /\ clock' = clock /\ rankings' = rankings
      /\ Ranks(w) /\ Shape(w, clock, jobs) /\ w.pc \in {"agents", "features"}
  BY <1>1 DEF RunAgent, StoreFeatures, Narrate, ShapesInv, RankInv
<1>3. DOMAIN w = AnalysisFields /\ (w.ranking # None => IsRanking(w.ranking, clock))
  BY <1>2 DEF Shape, Analysing
<1>4. \/ l.pc = "idle"
      \/ /\ l.pc \in Analysing /\ l.ranking = w.ranking /\ l.stock = w.stock
         /\ l.pc = "narrated" => l.created = clock
  <2>1. CASE RunAgent(p)
    <3>1. PICK a, got, pc : /\ work' = [work EXCEPT ![p] = [Noted(w, a, got) EXCEPT !.pc = pc]]
                            /\ pc \in {"agents", "features"}
      BY <1>1, <2>1, AgentStep
    <3>2. PICK n : n = Noted(w, a, got)
      OBVIOUS
    <3>3. DOMAIN n = AnalysisFields /\ n.ranking = w.ranking /\ n.stock = w.stock
      BY <1>3, <3>2, NotedFacts
    <3>4. l = [n EXCEPT !.pc = pc]
      BY <1>1, <3>1, <3>2 DEF ShapesInv
    <3> QED
      BY <3>1, <3>3, <3>4 DEF AnalysisFields, Analysing
  <2>2. CASE StoreFeatures(p)
    <3>1. l = Idle \/ l = [w EXCEPT !.pc = "agents"]
      BY <1>1, <2>2 DEF StoreFeatures, ShapesInv
    <3> QED
      BY <1>3, <3>1 DEF AnalysisFields, Analysing, Idle
  <2>3. CASE Narrate(p)
    BY <1>1, <2>3, NarrateShapes DEF AnalysisFields, Analysing
  <2> QED
    BY <2>1, <2>2, <2>3
<1>5. Ranks(l)
  <2>1. CASE l.pc = "idle"
    BY <2>1 DEF Ranks, Analysing
  <2>2. CASE l.pc \in Analysing
    BY <1>2, <1>3, <1>4, <2>2, RanksMovesOn DEF Analysing, IsRanking
  <2> QED
    BY <1>4, <2>1, <2>2
<1> QED
  BY <1>2, <1>5, OtherRanks

LEMMA StoreReportRank ==
    ASSUME ShapesInv, RankInv, NEW p \in Procs, StoreReport(p)
    PROVE  RankInv'
<1>1. PICK w, l, row : /\ w = work[p] /\ l = (IF w.ranking = None THEN Idle ELSE w.ranking)
                       /\ row = ReportRow(w)
  OBVIOUS
<1>2. /\ work' = [work EXCEPT ![p] = l] /\ reports' = Append(reports, row)
      /\ clock' = clock /\ rankings' = rankings /\ w.pc = "narrated"
  BY <1>1 DEF StoreReport
<1>3. /\ w.created \in 0 .. clock /\ (w.ranking # None => IsRanking(w.ranking, clock))
      /\ Ranks(w) /\ clock \in Nat
  BY <1>1, <1>2 DEF ShapesInv, Shape, RankInv, Analysing
<1>4. row.stock = w.stock /\ row.created = w.created
  BY <1>1 DEF ReportRow
<1>5. /\ DOMAIN reports' = 1 .. Len(reports) + 1 /\ reports'[Len(reports) + 1] = row
      /\ \A k \in 1 .. Len(reports) : reports'[k] = reports[k]
      /\ DOMAIN reports = 1 .. Len(reports) /\ Len(reports) \in Nat
  BY <1>2, Appended DEF ShapesInv, IsTable
<1>6. ReportsKept
  BY <1>2, <1>3, <1>4, <1>5 DEF ReportsKept, RankInv
<1>7. Ranks(l)'
  <2>1. CASE w.ranking = None
    BY <1>1, <2>1 DEF Ranks, Idle, Analysing
  <2>2. CASE w.ranking # None
    <3>1. /\ l.pc = "ranking" /\ Refreshed(l, {w.stock}) /\ l.refreshed
          /\ l.asked <= w.created /\ l.asked \in Nat
      BY <1>1, <1>2, <1>3, <2>2 DEF Ranks, Analysing, IsRanking
    <3>2. Refreshed(l, {w.stock})'
      BY <1>6, <3>1, RefreshedLasts
    <3>3. HasReport(w.stock, l)'
      <4>1. reports'[Len(reports) + 1].created >= l.asked - MaxAge
        BY <1>3, <1>4, <1>5, <3>1, BoundsAssumption
      <4> QED
        BY <1>4, <1>5, <3>1, <4>1 DEF HasReport
    <3>4. Refreshed(l, {})'
      BY <3>2, <3>3 DEF Refreshed
    <3> QED
      BY <3>1, <3>4 DEF Ranks, Analysing
  <2> QED
    BY <2>1, <2>2
<1> QED
  BY <1>2, <1>6, <1>7, OneRanks

LEMMA StartRankingRank ==
    ASSUME ShapesInv, RankInv, NEW p \in Procs, NEW refresh \in BOOLEAN, StartRanking(p, refresh)
    PROVE  RankInv'
<1>1. PICK l : l = [pc |-> "ranking", asked |-> clock, todo |-> IF refresh THEN Stocks ELSE <<>>,
                    refresh |-> refresh, refreshed |-> FALSE]
  OBVIOUS
<1>2. Ranks(l)
  BY <1>1 DEF Ranks, Refreshed, Analysing
<1> QED
  BY <1>1, <1>2, OtherRanks DEF StartRanking

\* The latest report of a stock, when it has one.
LEMMA LatestIsLatest ==
    ASSUME ShapesInv, RankInv, NEW s, NEW at, Existing(s, at) # {}
    PROVE  /\ LatestReport(s, at) \in Existing(s, at)
           /\ \A j \in Existing(s, at) : reports[j].created <= reports[LatestReport(s, at)].created
<1> DEFINE K == Existing(s, at)
           T == {clock - reports[i].created : i \in K}
<1>1. \A i \in K : reports[i].created \in 0 .. clock
  BY DEF Existing, RankInv
<1>2. T \subseteq Nat /\ T # {}
  <2>1. PICK x \in K : TRUE
    OBVIOUS
  <2>2. clock - reports[x].created \in T
    BY <2>1
  <2>3. \A i \in K : clock - reports[i].created \in Nat
    BY <1>1 DEF ShapesInv
  <2> QED
    BY <2>2, <2>3
<1> HIDE DEF T
<1>3. PICK m \in T : \A e \in T : ~(<<e, m>> \in OpToRel(<, Nat))
  BY <1>2, NatLessThanWellFounded, WFMin, Zenon
<1>4. PICK x \in K : m = clock - reports[x].created
  BY DEF T
<1>5. ASSUME NEW y \in K PROVE reports[y].created <= reports[x].created
  <2>1. clock - reports[y].created \in T /\ clock - reports[y].created \in Nat /\ m \in Nat
    BY <1>2 DEF T
  <2>2. ~(clock - reports[y].created < m)
    BY <1>3, <2>1 DEF OpToRel
  <2> QED
    BY <1>1, <1>4, <2>2 DEF ShapesInv
<1>6. \E i \in K : \A j \in K : reports[j].created <= reports[i].created
  BY <1>4, <1>5
<1>7. LatestReport(s, at) = CHOOSE i \in K : \A j \in K : reports[j].created <= reports[i].created
  BY DEF LatestReport
<1> HIDE DEF K
<1>8. /\ LatestReport(s, at) \in K
      /\ \A j \in K : reports[j].created <= reports[LatestReport(s, at)].created
  BY <1>6, <1>7
<1> QED
  BY <1>8 DEF K

LEMMA CheckReportRank ==
    ASSUME ShapesInv, RankInv, NEW p \in Procs, CheckReport(p)
    PROVE  RankInv'
<1>1. PICK w, next, begun : /\ w = work[p] /\ next = [w EXCEPT !.todo = Tail(w.todo)]
                            /\ begun = [next EXCEPT !.refreshed = TRUE]
  OBVIOUS
<1>2. PICK stock, l : stock = Head(w.todo) /\ l = Analysis(stock, w.asked, clock, FALSE, begun)
  OBVIOUS
<1>3. IsRanking(w, clock) /\ w.todo # <<>> /\ Ranks(w) /\ w.pc = "ranking"
  BY <1>1 DEF ShapesInv, Shape, CheckReport, RankInv
<1>4. /\ ToSet(w.todo) = {stock} \cup ToSet(Tail(w.todo))
      /\ IsRanking(next, clock) /\ IsRanking(begun, clock)
      /\ next.asked = w.asked /\ next.refresh = w.refresh
      /\ next.refreshed = w.refreshed /\ next.todo = Tail(w.todo)
      /\ begun.asked = w.asked /\ begun.refresh = w.refresh
      /\ begun.refreshed /\ begun.todo = Tail(w.todo)
  <2> DEFINE n == [w EXCEPT !.todo = Tail(w.todo)]
             b == [n EXCEPT !.refreshed = TRUE]
  <2>1. /\ ToSet(w.todo) = {Head(w.todo)} \cup ToSet(Tail(w.todo))
        /\ IsRanking(n, clock) /\ IsRanking(b, clock)
        /\ n.asked = w.asked /\ n.refresh = w.refresh
        /\ n.refreshed = w.refreshed /\ n.todo = Tail(w.todo)
        /\ b.asked = w.asked /\ b.refresh = w.refresh
        /\ b.refreshed /\ b.todo = Tail(w.todo)
    BY <1>3, RankingMoves
  <2>2. next = n /\ begun = b
    BY <1>1
  <2> HIDE DEF n, b
  <2> QED
    BY <1>2, <2>1, <2>2
<1>5. /\ reports' = reports /\ clock' = clock /\ rankings' = rankings
      /\ \/ work' = [work EXCEPT ![p] = l]
         \/ /\ work' = [work EXCEPT ![p] = next]
            /\ LET i == LatestReport(stock, w.asked) IN
               i # None /\ ~(w.asked - reports[i].created > MaxAge)
  BY <1>1, <1>2 DEF CheckReport
<1>6. Refreshed(w, {})
  BY <1>3 DEF Ranks
<1>7. CASE work' = [work EXCEPT ![p] = l]
  <2>1. \A s : HasReport(s, w) => HasReport(s, begun)
    BY <1>4 DEF HasReport
  <2>2. Refreshed(begun, {stock})
    BY <1>4, <1>6, <2>1 DEF Refreshed
  <2>3. l.pc = "agents" /\ l.ranking = begun /\ l.stock = stock
    BY <1>2 DEF Analysis
  <2>4. Ranks(l)
    BY <1>4, <2>2, <2>3 DEF Ranks, Analysing
  <2> QED
    BY <1>5, <1>7, <2>4, OtherRanks
<1>8. CASE /\ work' = [work EXCEPT ![p] = next]
           /\ LET i == LatestReport(stock, w.asked) IN
              i # None /\ ~(w.asked - reports[i].created > MaxAge)
  <2>1. \A s : HasReport(s, w) => HasReport(s, next)
    BY <1>4 DEF HasReport
  <2>2. HasReport(stock, next)
    <3>1. PICK i : i = LatestReport(stock, w.asked)
      OBVIOUS
    <3>2. Existing(stock, w.asked) # {}
      BY <1>8 DEF LatestReport
    <3>3. i \in Existing(stock, w.asked)
      BY <3>1, <3>2, LatestIsLatest
    <3>4. /\ i \in DOMAIN reports /\ reports[i].stock = stock /\ reports[i].created <= w.asked
          /\ reports[i].created \in 0 .. clock /\ w.asked \in Nat /\ clock \in Nat
      BY <1>3, <3>3 DEF Existing, RankInv, IsRanking, ShapesInv
    <3>5. reports[i].created >= w.asked - MaxAge
      BY <1>8, <3>1, <3>4, BoundsAssumption
    <3> QED
      BY <1>4, <3>4, <3>5 DEF HasReport
  <2>3. Refreshed(next, {})
    BY <1>4, <1>6, <2>1, <2>2 DEF Refreshed
  <2>4. Ranks(next)
    BY <1>4, <2>3 DEF Ranks, IsRanking, Analysing
  <2> QED
    BY <1>5, <1>8, <2>4, OtherRanks
<1> QED
  BY <1>5, <1>7, <1>8

\* A ranking with no stock left to check judges every stock on a report it may use.
LEMMA PicksAreUsable ==
    ASSUME ShapesInv, RankInv, NEW w, IsRanking(w, clock), Refreshed(w, {}), w.todo = <<>>,
           w.refresh, NEW at, at = EvaluatedAt(w), NEW s \in ToSet(Stocks)
    PROVE  LET i == LatestReport(s, at) IN
           i \in DOMAIN reports /\ i # None /\ reports[i].created \in w.asked - MaxAge .. at
<1>1. w.asked \in Nat /\ w.asked <= clock /\ clock \in Nat /\ w.refreshed \in BOOLEAN
  BY DEF IsRanking, ShapesInv
<1>2. Max({w.asked, clock}) = clock
  BY <1>1 DEF Max
<1>3. at \in Nat /\ w.asked <= at /\ at <= clock /\ (w.refreshed => at = clock)
  BY <1>1, <1>2 DEF EvaluatedAt
<1>4. HasReport(s, w)
  BY DEF Refreshed, ToSet
<1>5. PICK j \in DOMAIN reports : /\ reports[j].stock = s /\ reports[j].created >= w.asked - MaxAge
                                  /\ reports[j].created <= w.asked \/ w.refreshed
  BY <1>4 DEF HasReport
<1>6. reports[j].created \in 0 .. clock
  BY DEF RankInv
<1>7. j \in Existing(s, at)
  BY <1>1, <1>3, <1>5, <1>6 DEF Existing
<1>8. PICK i : i = LatestReport(s, at)
  OBVIOUS
<1>9. i \in Existing(s, at) /\ reports[j].created <= reports[i].created
  BY <1>7, <1>8, LatestIsLatest
<1>10. i \in DOMAIN reports /\ reports[i].created <= at /\ reports[i].created \in 0 .. clock
  BY <1>9 DEF Existing, RankInv
<1>11. i # None
  BY <1>10, NoneAssumption DEF ShapesInv, IsTable
<1>12. reports[i].created \in w.asked - MaxAge .. at
  BY <1>1, <1>3, <1>5, <1>6, <1>9, <1>10, BoundsAssumption
<1> QED
  BY <1>8, <1>10, <1>11, <1>12

LEMMA EvaluateRank ==
    ASSUME ShapesInv, RankInv, NEW p \in Procs, Evaluate(p)
    PROVE  RankInv'
<1>1. PICK w, at, row : w = work[p] /\ at = EvaluatedAt(w) /\ row = RankingRow(w, at)
  OBVIOUS
<1>2. /\ rankings' = Append(rankings, row) /\ work' = [work EXCEPT ![p] = Idle]
      /\ reports' = reports /\ clock' = clock /\ w.pc = "ranking" /\ w.todo = <<>>
  BY <1>1 DEF Evaluate
<1>3. IsRanking(w, clock) /\ Refreshed(w, {})
  BY <1>1, <1>2 DEF ShapesInv, Shape, RankInv, Ranks
<1>4. /\ row.asked = w.asked /\ row.asOf = at /\ row.refresh = w.refresh
      /\ DOMAIN row.picks = ToSet(Stocks)
      /\ \A s \in ToSet(Stocks) : row.picks[s] = LatestReport(s, at)
  BY <1>1 DEF RankingRow
<1>5. /\ IsTable(rankings') /\ DOMAIN rankings' = 1 .. Len(rankings) + 1
      /\ rankings'[Len(rankings) + 1] = row /\ IsTable(rankings)
      /\ \A k \in 1 .. Len(rankings) : rankings'[k] = rankings[k]
  BY <1>2, Appended DEF RankInv
<1>6. ASSUME NEW k \in DOMAIN rankings', rankings'[k].refresh, NEW s \in DOMAIN rankings'[k].picks
      PROVE  /\ rankings'[k].picks[s] \in DOMAIN reports /\ rankings'[k].picks[s] # None
             /\ reports[rankings'[k].picks[s]].created
                  \in rankings'[k].asked - MaxAge .. rankings'[k].asOf
  <2>1. CASE k = Len(rankings) + 1
    BY <1>1, <1>2, <1>3, <1>4, <1>5, <1>6, <2>1, PicksAreUsable
  <2>2. CASE k # Len(rankings) + 1
    <3>1. k \in DOMAIN rankings /\ rankings'[k] = rankings[k]
      BY <1>5, <2>2 DEF IsTable
    <3> QED
      BY <1>6, <3>1 DEF RankInv, RankingSeesRefresh
  <2> QED
    BY <2>1, <2>2
<1>7. RankingSeesRefresh'
  BY <1>2, <1>6 DEF RankingSeesRefresh
<1>8. ASSUME NEW q \in Procs PROVE Ranks(work[q])'
  <2>1. CASE q = p
    BY <1>2, <2>1 DEF Ranks, Idle, Analysing, ShapesInv
  <2>2. CASE q # p
    <3>1. PICK m : m = work[q]
      OBVIOUS
    <3>2. m = work'[q] /\ Ranks(m)
      BY <1>2, <2>2, <3>1 DEF RankInv, ShapesInv
    <3>3. ReportsKept
      BY <1>2, ReportsSame DEF ShapesInv
    <3>4. Ranks(m)'
      BY <3>2, <3>3, RanksLasts
    <3> QED
      BY <3>2, <3>4
  <2> QED
    BY <2>1, <2>2
<1> QED
  BY <1>2, <1>5, <1>6, <1>7, <1>8 DEF RankInv

LEMMA OthersRank ==
    ASSUME ShapesInv, RankInv,
           \/ Tick \/ Trade \/ Redeploy \/ UNCHANGED vars
           \/ \E p \in Procs :
                \/ \E answer \in Payloads : Fetch(p, answer)
                \/ \E embedded \in Embeds : Compare(p, embedded)
                \/ Die(p)
    PROVE  RankInv'
<1>1. /\ reports' = reports /\ rankings' = rankings /\ clock' \in Nat /\ clock <= clock'
      /\ \A q \in Procs : \/ work'[q] = work[q]
                          \/ work'[q].pc \in {"idle", "fetched", "compared"}
  BY DEF Tick, Trade, Redeploy, vars, Fetch, Compare, Die, Idle, ShapesInv
<1>2. ReportsKept
  BY <1>1, ReportsSame DEF ShapesInv
<1>3. ASSUME NEW q \in Procs PROVE Ranks(work[q])'
  <2>1. CASE work'[q] = work[q]
    <3>1. PICK m : m = work[q]
      OBVIOUS
    <3>2. Ranks(m)'
      BY <1>2, <3>1, RanksLasts DEF RankInv
    <3> QED
      BY <2>1, <3>1, <3>2
  <2>2. CASE work'[q].pc \in {"idle", "fetched", "compared"}
    BY <2>2 DEF Ranks, Analysing
  <2> QED
    BY <1>1, <2>1, <2>2
<1> QED
  BY <1>1, <1>2, <1>3, RankKeeps

LEMMA StepRank == ShapesInv /\ RankInv /\ [Next]_vars => RankInv'
BY IngestRank, RequestRank, AnalysingRank, StoreReportRank, StartRankingRank, CheckReportRank,
   EvaluateRank, OthersRank
   DEF Next

LEMMA InitRank == Init => RankInv
BY DEF Init, RankInv, Ranks, RankingSeesRefresh, Idle, Analysing, IsTable

LEMMA RankHolds == Spec => [](ShapesInv /\ RankInv)
<1>1. Init => ShapesInv /\ RankInv
  BY InitShapes, InitRank
<1>2. ShapesInv /\ RankInv /\ [Next]_vars => ShapesInv' /\ RankInv'
  BY StepShapes, StepRank
<1> QED
  BY <1>1, <1>2, PTL DEF Spec

\* A ranking that refreshes judges every stock on a report that it may use
\* (ranking/service.py, run_ranking).
THEOREM RankingUsesWhatItRefreshed == Spec => []RankingSeesRefresh
<1>1. ShapesInv /\ RankInv => RankingSeesRefresh
  BY DEF RankInv
<1> QED
  BY <1>1, RankHolds, PTL

-----------------------------------------------------------------------------
(* Sums over finite sets                                                    *)

\* The element a sum over a set takes next.
Chosen(s) == CHOOSE x \in s : TRUE

\* it is the sum of f over every subset of S, taken element by element.
IsSum(it, f, S) ==
    it = [s \in SUBSET S |-> IF s = {} THEN 0 ELSE f[Chosen(s)] + it[s \ {Chosen(s)}]]

LEMMA RestIsSmaller ==
    ASSUME NEW S, IsFiniteSet(S), NEW s \in SUBSET S, s # {}
    PROVE  /\ Chosen(s) \in s /\ s \ {Chosen(s)} \in SUBSET S
           /\ Cardinality(s) \in Nat \ {0}
           /\ Cardinality(s \ {Chosen(s)}) = Cardinality(s) - 1
<1>1. Chosen(s) \in s
  BY DEF Chosen
<1>2. IsFiniteSet(s)
  BY FS_Subset
<1>3. /\ Cardinality(s \ {Chosen(s)}) = Cardinality(s) - 1
      /\ Cardinality(s) \in Nat /\ Cardinality(s \ {Chosen(s)}) \in Nat
  BY <1>1, <1>2, FS_RemoveElement, FS_CardinalityType
<1> QED
  BY <1>1, <1>3

LEMMA SumExists ==
    ASSUME NEW S, IsFiniteSet(S), NEW f
    PROVE  \E it : IsSum(it, f, S)
<1> DEFINE Upto(n) == {s \in SUBSET S : Cardinality(s) <= n}
           Partial(it, n) == it = [s \in Upto(n) |-> IF s = {} THEN 0
                                                    ELSE f[Chosen(s)] + it[s \ {Chosen(s)}]]
           Bad == {n \in Nat : ~\E it : Partial(it, n)}
<1>1. \A s \in SUBSET S : Cardinality(s) \in Nat
  BY FS_Subset, FS_CardinalityType
<1>2. Bad = {}
  <2> SUFFICES ASSUME Bad # {} PROVE FALSE
    OBVIOUS
  <2>1. PICK m \in Bad : \A i \in Bad : m <= i
    BY LeastOfNaturals
  <2>2. m # 0
    <3>1. \A s \in Upto(0) : s = {}
      <4> SUFFICES ASSUME NEW s \in Upto(0), s # {} PROVE FALSE
        OBVIOUS
      <4>1. s \in SUBSET S /\ Cardinality(s) \in Nat \ {0}
        BY RestIsSmaller
      <4> QED
        BY <4>1
    <3>2. Partial([s \in Upto(0) |-> 0], 0)
      BY <3>1
    <3>3. 0 \notin Bad
      <4> HIDE DEF Partial, Upto
      <4> QED
        BY <3>2
    <3> QED
      BY <2>1, <3>3
  <2>3. m - 1 \in Nat /\ m - 1 \notin Bad
    <3>1. m \in Nat
      OBVIOUS
    <3> HIDE DEF Bad
    <3> QED
      BY <2>1, <2>2, <3>1
  <2>4. PICK it : Partial(it, m - 1)
    BY <2>3
  <2> DEFINE jt == [s \in Upto(m) |-> IF s = {} THEN 0 ELSE f[Chosen(s)] + it[s \ {Chosen(s)}]]
  <2>5. ASSUME NEW s \in Upto(m - 1) PROVE s \in Upto(m) /\ jt[s] = it[s]
    <3>1. s \in Upto(m)
      BY <1>1, <2>1
    <3>2. it[s] = IF s = {} THEN 0 ELSE f[Chosen(s)] + it[s \ {Chosen(s)}]
      BY <2>4
    <3> QED
      BY <3>1, <3>2
  <2>6. ASSUME NEW s \in Upto(m), s # {} PROVE s \ {Chosen(s)} \in Upto(m - 1)
    BY <2>1, <2>6, RestIsSmaller
  <2>7. Partial(jt, m)
    <3>1. ASSUME NEW s \in Upto(m)
          PROVE  jt[s] = IF s = {} THEN 0 ELSE f[Chosen(s)] + jt[s \ {Chosen(s)}]
      BY <2>5, <2>6
    <3> QED
      BY <3>1
  <2> HIDE DEF Partial, jt
  <2> QED
    BY <2>1, <2>7
<1>3. PICK it : Partial(it, Cardinality(S))
  BY <1>2, FS_CardinalityType
<1>4. Upto(Cardinality(S)) = SUBSET S
  BY FS_Subset
<1> QED
  BY <1>3, <1>4 DEF IsSum

LEMMA SumFacts ==
    ASSUME NEW S, IsFiniteSet(S), NEW f, NEW g, NEW it, NEW jt,
           IsSum(it, f, S), IsSum(jt, g, S),
           \A x \in S : f[x] \in Int /\ g[x] \in Int /\ f[x] <= g[x]
    PROVE  /\ it[S] \in Int /\ jt[S] \in Int /\ it[S] <= jt[S]
           /\ (\A x \in S : f[x] >= 0) => it[S] >= 0
<1> DEFINE Good(s) == /\ it[s] \in Int /\ jt[s] \in Int /\ it[s] <= jt[s]
                      /\ (\A x \in S : f[x] >= 0) => it[s] >= 0
           Bad == {Cardinality(s) : s \in {u \in SUBSET S : ~Good(u)}}
<1>1. \A s \in SUBSET S : Cardinality(s) \in Nat
  BY FS_Subset, FS_CardinalityType
<1>2. Bad = {}
  <2> SUFFICES ASSUME Bad # {} PROVE FALSE
    OBVIOUS
  <2>1. Bad \in SUBSET Nat
    BY <1>1
  <2>2. PICK m \in Bad : \A i \in Bad : m <= i
    BY <2>1, LeastOfNaturals
  <2>3. PICK s \in SUBSET S : ~Good(s) /\ m = Cardinality(s)
    BY <2>2
  <2>4. /\ it[s] = IF s = {} THEN 0 ELSE f[Chosen(s)] + it[s \ {Chosen(s)}]
        /\ jt[s] = IF s = {} THEN 0 ELSE g[Chosen(s)] + jt[s \ {Chosen(s)}]
    BY DEF IsSum
  <2>5. s # {}
    BY <2>3, <2>4
  <2> DEFINE c == Chosen(s)
             u == s \ {c}
  <2>6. c \in S /\ u \in SUBSET S /\ Cardinality(u) = m - 1 /\ m \in Nat
    BY <2>1, <2>2, <2>3, <2>5, RestIsSmaller
  <2>7. Good(u)
    <3> SUFFICES ASSUME ~Good(u) PROVE FALSE
      OBVIOUS
    <3>1. Cardinality(u) \in Bad
      BY <2>6
    <3> QED
      BY <2>2, <2>6, <3>1
  <2> HIDE DEF c, u
  <2>8. /\ it[s] = f[c] + it[u] /\ jt[s] = g[c] + jt[u]
    BY <2>4, <2>5 DEF c, u
  <2>9. Good(s)
    BY <2>6, <2>7, <2>8
  <2> QED
    BY <2>3, <2>9
<1> QED
  BY <1>2

\* The folds of the model are such sums.
TotalValue(S) == MapThenSumSet(LAMBDA x : x.value, S)
TotalScore(outs, S) == MapThenSumSet(LAMBDA a : Vote(outs, a) * outs[a].score, S)

LEMMA SumOfValues ==
    ASSUME NEW S, IsFiniteSet(S)
    PROVE  \E it : IsSum(it, [x \in S |-> x.value], S) /\ TotalValue(S) = it[S]
<1> DEFINE f == [x \in S |-> x.value]
           Folds(it) == it = [s \in SUBSET S |-> IF s = {} THEN 0
                                ELSE (CHOOSE x \in s : TRUE).value + it[s \ {CHOOSE x \in s : TRUE}]]
<1>1. TotalValue(S) = (CHOOSE it : Folds(it))[S]
  BY Zenon DEF TotalValue, MapThenSumSet, MapThenFoldSet
<1>2. \A s \in SUBSET S : s # {} => f[Chosen(s)] = (CHOOSE x \in s : TRUE).value
  BY DEF Chosen
<1>3. ASSUME NEW it PROVE IsSum(it, f, S) <=> Folds(it)
  <2> HIDE DEF f
  <2> QED
    BY <1>2 DEF IsSum, Chosen
<1>4. PICK it : IsSum(it, f, S)
  BY SumExists
<1> HIDE DEF Folds, f
<1>5. Folds(CHOOSE jt : Folds(jt))
  BY <1>3, <1>4
<1>6. IsSum(CHOOSE jt : Folds(jt), f, S)
  BY <1>3, <1>5
<1> QED
  BY <1>1, <1>6 DEF f

LEMMA SumOfVotes ==
    ASSUME NEW outs, NEW S, IsFiniteSet(S)
    PROVE  \E it : IsSum(it, [a \in S |-> Vote(outs, a)], S) /\ Votes(outs, S) = it[S]
<1> DEFINE f == [a \in S |-> Vote(outs, a)]
           Folds(it) == it = [s \in SUBSET S |-> IF s = {} THEN 0
                                ELSE Vote(outs, CHOOSE x \in s : TRUE) + it[s \ {CHOOSE x \in s : TRUE}]]
<1>1. Votes(outs, S) = (CHOOSE it : Folds(it))[S]
  BY Zenon DEF Votes, MapThenSumSet, MapThenFoldSet
<1>2. \A s \in SUBSET S : s # {} => f[Chosen(s)] = Vote(outs, CHOOSE x \in s : TRUE)
  BY DEF Chosen
<1>3. ASSUME NEW it PROVE IsSum(it, f, S) <=> Folds(it)
  <2> HIDE DEF f
  <2> QED
    BY <1>2 DEF IsSum, Chosen
<1>4. PICK it : IsSum(it, f, S)
  BY SumExists
<1> HIDE DEF Folds, f
<1>5. Folds(CHOOSE jt : Folds(jt))
  BY <1>3, <1>4
<1>6. IsSum(CHOOSE jt : Folds(jt), f, S)
  BY <1>3, <1>5
<1> QED
  BY <1>1, <1>6 DEF f

LEMMA SumOfScores ==
    ASSUME NEW outs, NEW S, IsFiniteSet(S)
    PROVE  \E it : /\ IsSum(it, [a \in S |-> Vote(outs, a) * outs[a].score], S)
                   /\ TotalScore(outs, S) = it[S]
<1> DEFINE f == [a \in S |-> Vote(outs, a) * outs[a].score]
           Folds(it) == it = [s \in SUBSET S |-> IF s = {} THEN 0
                                ELSE Vote(outs, CHOOSE x \in s : TRUE) * outs[CHOOSE x \in s : TRUE].score
                                     + it[s \ {CHOOSE x \in s : TRUE}]]
<1>1. TotalScore(outs, S) = (CHOOSE it : Folds(it))[S]
  BY Zenon DEF TotalScore, MapThenSumSet, MapThenFoldSet
<1>2. \A s \in SUBSET S : s # {} =>
         f[Chosen(s)] = Vote(outs, CHOOSE x \in s : TRUE) * outs[CHOOSE x \in s : TRUE].score
  BY DEF Chosen
<1>3. ASSUME NEW it PROVE IsSum(it, f, S) <=> Folds(it)
  <2> HIDE DEF f
  <2> QED
    BY <1>2 DEF IsSum, Chosen
<1>4. PICK it : IsSum(it, f, S)
  BY SumExists
<1> HIDE DEF Folds, f
<1>5. Folds(CHOOSE jt : Folds(jt))
  BY <1>3, <1>4
<1>6. IsSum(CHOOSE jt : Folds(jt), f, S)
  BY <1>3, <1>5
<1> QED
  BY <1>1, <1>6 DEF f

LEMMA DivisionKeepsOrder ==
    ASSUME NEW x \in Int, NEW y \in Int, x <= y, NEW n \in Nat \ {0}
    PROVE  /\ x \div n \in Int /\ y \div n \in Int /\ x \div n <= y \div n
OBVIOUS

LEMMA ProductKeepsOrder ==
    ASSUME NEW v \in Nat, NEW x \in Int, NEW y \in Int, x <= y
    PROVE  v * x \in Int /\ v * y \in Int /\ v * x <= v * y
OBVIOUS

-----------------------------------------------------------------------------
(* The synthesis is monotone in the scores                                  *)

AreScored(outs) ==
    /\ IsFiniteSet(DOMAIN outs)
    /\ \A a \in DOMAIN outs : outs[a].status = "ok" => outs[a].score \in Int

\* NoBetter, for the outputs themselves.
ScoresNoBetter(q, r) ==
    /\ DOMAIN q = DOMAIN r
    /\ \A a \in DOMAIN q : q[a].status = r[a].status /\ (q[a].status = "ok" => q[a].score <= r[a].score)

LEMMA VotesAreCounted ==
    ASSUME NEW outs, NEW a
    PROVE  Vote(outs, a) \in Nat
BY OrchestratorAssumption DEF Vote, OrchestratorRules

LEMMA SameVotes ==
    ASSUME NEW q, NEW r, ScoresNoBetter(q, r), NEW S \in SUBSET DOMAIN q, IsFiniteSet(S)
    PROVE  Votes(q, S) = Votes(r, S) /\ Votes(q, S) \in Nat
<1> DEFINE f == [a \in S |-> Vote(q, a)]
           g == [a \in S |-> Vote(r, a)]
<1>1. \A a \in S : Vote(q, a) = Vote(r, a) /\ Vote(q, a) \in Nat
  BY VotesAreCounted DEF Vote, ScoresNoBetter
<1>2. f = g /\ \A a \in S : f[a] \in Int /\ f[a] <= f[a] /\ f[a] >= 0
  BY <1>1
<1>3. PICK it : IsSum(it, f, S) /\ Votes(q, S) = it[S]
  BY SumOfVotes
<1>4. PICK jt : IsSum(jt, g, S) /\ Votes(r, S) = jt[S]
  BY SumOfVotes
<1> HIDE DEF f, g
<1>5. it[S] \in Int /\ it[S] >= 0 /\ it[S] <= jt[S]
  BY <1>2, <1>3, <1>4, SumFacts
<1>6. jt[S] \in Int /\ jt[S] <= it[S]
  BY <1>2, <1>3, <1>4, SumFacts
<1> QED
  BY <1>3, <1>4, <1>5, <1>6

LEMMA CompositeKeepsOrder ==
    ASSUME NEW q, NEW r, AreScored(q), AreScored(r), ScoresNoBetter(q, r)
    PROVE  /\ CompositeScore(q) = None <=> CompositeScore(r) = None
           /\ CompositeScore(q) # None =>
                /\ CompositeScore(q) \in Int /\ CompositeScore(r) \in Int
                /\ CompositeScore(q) <= CompositeScore(r)
<1>1. Usable(q) = Usable(r) /\ Voters(q) = Voters(r)
  BY DEF Usable, Voters, ScoresNoBetter
<1> DEFINE S == Voters(q)
           f == [a \in S |-> Vote(q, a) * q[a].score]
           g == [a \in S |-> Vote(r, a) * r[a].score]
           n == Votes(q, S)
<1>2. S \in SUBSET DOMAIN q /\ IsFiniteSet(S)
  <2>1. S \in SUBSET DOMAIN q
    BY DEF Voters, Usable
  <2> QED
    BY <2>1, FS_Subset DEF AreScored
<1>3. n \in Nat /\ Votes(r, S) = n
  BY <1>2, SameVotes
<1>4. ASSUME NEW a \in S
      PROVE  f[a] \in Int /\ g[a] \in Int /\ f[a] <= g[a]
  <2>1. /\ a \in DOMAIN q /\ a \in DOMAIN r /\ q[a].status = "ok" /\ r[a].status = "ok"
        /\ q[a].score <= r[a].score
    BY <1>1 DEF Voters, Usable, ScoresNoBetter
  <2>2. q[a].score \in Int /\ r[a].score \in Int
    BY <2>1 DEF AreScored
  <2>3. Vote(q, a) = Vote(r, a) /\ Vote(q, a) \in Nat
    BY <2>1, VotesAreCounted DEF Vote
  <2>4. /\ Vote(q, a) * q[a].score \in Int /\ Vote(q, a) * r[a].score \in Int
        /\ Vote(q, a) * q[a].score <= Vote(q, a) * r[a].score
    BY <2>1, <2>2, <2>3, ProductKeepsOrder
  <2> QED
    BY <2>3, <2>4
<1>5. PICK it : IsSum(it, f, S) /\ TotalScore(q, S) = it[S]
  BY <1>2, SumOfScores
<1>6. PICK jt : IsSum(jt, g, S) /\ TotalScore(r, S) = jt[S]
  BY <1>2, SumOfScores
<1>7. it[S] \in Int /\ jt[S] \in Int /\ it[S] <= jt[S]
  <2> HIDE DEF f, g, S
  <2> QED
    BY <1>2, <1>4, <1>5, <1>6, SumFacts
<1>8. CompositeScore(q) = IF n = 0 THEN None ELSE it[S] \div n
  <2>1. CompositeScore(q) = IF n = 0 THEN None ELSE TotalScore(q, S) \div n
    BY Zenon DEF CompositeScore, TotalScore
  <2> QED
    BY <1>5, <2>1
<1>9. CompositeScore(r) = IF n = 0 THEN None ELSE jt[S] \div n
  <2>1. CompositeScore(r) = IF Votes(r, Voters(r)) = 0 THEN None
                            ELSE TotalScore(r, Voters(r)) \div Votes(r, Voters(r))
    BY Zenon DEF CompositeScore, TotalScore
  <2> QED
    BY <1>1, <1>3, <1>6, <2>1
<1> HIDE DEF n, S
<1>10. n # 0 => /\ it[S] \div n \in Int /\ jt[S] \div n \in Int
                /\ it[S] \div n <= jt[S] \div n
  BY <1>3, <1>7, DivisionKeepsOrder
<1> QED
  BY <1>8, <1>9, <1>10, NoneAssumption

LEMMA StanceKeepsOrder ==
    ASSUME NEW q, NEW r, AreScored(q), AreScored(r), ScoresNoBetter(q, r)
    PROVE  Rank(Stance(q)) <= Rank(Stance(r))
<1> DEFINE x == CompositeScore(q)
           y == CompositeScore(r)
           band == Orchestrator.band
<1>1. /\ x = None <=> y = None
      /\ x # None => x \in Int /\ y \in Int /\ x <= y
  BY CompositeKeepsOrder
<1>2. Usable(q) = Usable(r)
  BY DEF Usable, ScoresNoBetter
<1>3. Lacking(q) <=> Lacking(r)
  BY <1>2 DEF Lacking
<1>4. VetoHits(r) # {} => VetoHits(q) # {}
  <2> SUFFICES ASSUME NEW a \in VetoHits(r) PROVE a \in VetoHits(q)
    OBVIOUS
  <2>1. /\ a \in DOMAIN Orchestrator.vetoes /\ a \in Usable(q) /\ a \in Usable(r)
        /\ r[a].score < Orchestrator.vetoes[a]
    BY <1>2 DEF VetoHits
  <2>2. /\ q[a].score \in Int /\ r[a].score \in Int /\ q[a].score <= r[a].score
        /\ Orchestrator.vetoes[a] \in Int
    BY <2>1, OrchestratorAssumption DEF Usable, AreScored, ScoresNoBetter, OrchestratorRules
  <2> QED
    BY <2>1, <2>2 DEF VetoHits
<1>5. band \in 1 .. 49
  BY OrchestratorAssumption DEF OrchestratorRules
<1>6. Stance(q) = CASE Lacking(q) \/ x = None -> "INSUFFICIENT_DATA"
                    [] ~Lacking(q) /\ x # None /\ x >= 50 + band ->
                          IF VetoHits(q) # {} THEN "NO_CLEAR_TILT" ELSE "POSITIVE_TILT"
                    [] ~Lacking(q) /\ x # None /\ x <= 50 - band -> "NEGATIVE_TILT"
                    [] OTHER -> "NO_CLEAR_TILT"
  BY DEF Stance
<1>7. Stance(r) = CASE Lacking(r) \/ y = None -> "INSUFFICIENT_DATA"
                    [] ~Lacking(r) /\ y # None /\ y >= 50 + band ->
                          IF VetoHits(r) # {} THEN "NO_CLEAR_TILT" ELSE "POSITIVE_TILT"
                    [] ~Lacking(r) /\ y # None /\ y <= 50 - band -> "NEGATIVE_TILT"
                    [] OTHER -> "NO_CLEAR_TILT"
  BY DEF Stance
<1> HIDE DEF x, y, band
<1>8. CASE Lacking(q) \/ x = None
  <2>1. Stance(q) = "INSUFFICIENT_DATA" /\ Stance(r) = "INSUFFICIENT_DATA"
    BY <1>1, <1>3, <1>6, <1>7, <1>8
  <2> QED
    BY <2>1 DEF Rank
<1>9. CASE ~(Lacking(q) \/ x = None)
  <2>1. /\ x \in Int /\ y \in Int /\ x <= y /\ y # None /\ ~Lacking(r)
    BY <1>1, <1>3, <1>9
  <2>2. CASE x <= 50 - band
    <3>1. Stance(q) = "NEGATIVE_TILT"
      BY <1>5, <1>6, <1>9, <2>1, <2>2
    <3>2. Stance(r) \in {"NO_CLEAR_TILT", "POSITIVE_TILT", "NEGATIVE_TILT"}
      BY <1>5, <1>7, <2>1
    <3> QED
      BY <3>1, <3>2 DEF Rank
  <2>3. CASE x > 50 - band /\ x < 50 + band
    <3>1. Stance(q) = "NO_CLEAR_TILT"
      BY <1>5, <1>6, <1>9, <2>1, <2>3
    <3>2. Stance(r) \in {"NO_CLEAR_TILT", "POSITIVE_TILT"}
      BY <1>5, <1>7, <2>1, <2>3
    <3> QED
      BY <3>1, <3>2 DEF Rank
  <2>4. CASE x >= 50 + band
    <3>1. Stance(q) = IF VetoHits(q) # {} THEN "NO_CLEAR_TILT" ELSE "POSITIVE_TILT"
      BY <1>5, <1>6, <1>9, <2>1, <2>4
    <3>2. Stance(r) = IF VetoHits(r) # {} THEN "NO_CLEAR_TILT" ELSE "POSITIVE_TILT"
      BY <1>5, <1>7, <2>1, <2>4
    <3> QED
      BY <1>4, <3>1, <3>2 DEF Rank
  <2> QED
    BY <1>5, <2>1, <2>2, <2>3, <2>4
<1> QED
  BY <1>8, <1>9

-----------------------------------------------------------------------------
(* What agents make of what they read                                       *)

IsFact(f) == f.value \in Int /\ f.version \in Nat /\ f.source \in DOMAIN Licensed

ScoreInv ==
    /\ IsFiniteSet(facts) /\ (\A f \in facts : IsFact(f)) /\ IsFiniteSet(stories)
    /\ \A p \in Procs :
         /\ work[p].pc = "compared" =>
              /\ IsFiniteSet(work[p].rows)
              /\ work[p].store # "news" => \A r \in work[p].rows : IsFact(r)
         /\ work[p].pc \in Analysing => AreScored(work[p].outs)
    /\ \A i \in DOMAIN reports : AreScored(reports[i].outs)

\* Some figure is preferred to all others.
LEMMA PreferredExists ==
    ASSUME NEW S, IsFiniteSet(S), S # {}, \A f \in S : IsFact(f)
    PROVE  \E f \in S : \A g \in S : Preferred(f, g)
<1> DEFINE Better(f) == {g \in S : ~Preferred(f, g)}
           K == {Cardinality(Better(f)) : f \in S}
<1>1. \A f, g \in S : Preferred(f, g) \/ Preferred(g, f)
  BY LicensedAssumption DEF Preferred, IsFact
<1>2. \A f, g, h \in S : Preferred(f, g) /\ Preferred(g, h) => Preferred(f, h)
  BY LicensedAssumption DEF Preferred, IsFact
<1>3. \A f \in S : IsFiniteSet(Better(f)) /\ Cardinality(Better(f)) \in Nat
  BY FS_Subset, FS_CardinalityType
<1>4. K \in SUBSET Nat /\ K # {}
  BY <1>3
<1>5. PICK m \in K : \A i \in K : m <= i
  BY <1>4, LeastOfNaturals
<1>6. PICK f \in S : m = Cardinality(Better(f))
  BY <1>5
<1>7. ASSUME NEW g \in S, ~Preferred(f, g) PROVE FALSE
  <2>1. g \in Better(f) /\ g \notin Better(g)
    BY <1>1, <1>7
  <2>2. Better(g) \subseteq Better(f)
    BY <1>1, <1>2, <1>7
  <2>3. Cardinality(Better(g)) <= Cardinality(Better(f)) /\ Better(g) # Better(f)
    BY <1>3, <2>1, <2>2, FS_Subset
  <2>4. Cardinality(Better(g)) # Cardinality(Better(f))
    BY <1>3, <2>2, <2>3, FS_Subset
  <2>5. m <= Cardinality(Better(g))
    BY <1>5
  <2> QED
    BY <1>3, <1>6, <2>3, <2>4, <2>5
<1> QED
  BY <1>7

LEMMA ReadingsAreValued ==
    ASSUME StoriesInv, ScoreInv, NEW a, NEW stock, NEW asOf, NEW known
    PROVE  LET read == Reading(a, stock, asOf, known) IN
           IsFiniteSet(read) /\ \A x \in read : x.value \in Int
<1>1. CASE Reads[a] = "news"
  <2>1. NewsAsOf(stock, asOf, known) \subseteq stories
    BY DEF NewsAsOf
  <2>2. IsFiniteSet(NewsAsOf(stock, asOf, known))
    BY <2>1, FS_Subset DEF ScoreInv
  <2>3. \A x \in NewsAsOf(stock, asOf, known) : x.value \in Int
    BY <2>1 DEF StoriesInv, IsStory
  <2> QED
    BY <1>1, <2>2, <2>3 DEF Reading
<1>2. CASE Reads[a] = "holdings"
  <2> DEFINE x == [value |-> IF holdings = 0 THEN 70 ELSE 30]
  <2>1. x.value \in Int
    OBVIOUS
  <2>2. Reading(a, stock, asOf, known) = {x}
    BY <1>2 DEF Reading
  <2> HIDE DEF x
  <2> QED
    BY <2>1, <2>2, FS_Singleton
<1>3. CASE Reads[a] \notin {"news", "holdings"}
  <2> DEFINE read == Visible(stock, Reads[a], asOf, known)
             best == CHOOSE f \in read : \A g \in read : Preferred(f, g)
  <2>1. read \subseteq facts
    BY DEF Visible
  <2>2. IsFiniteSet(read) /\ \A f \in read : IsFact(f)
    BY <2>1, FS_Subset DEF ScoreInv
  <2>3. Reading(a, stock, asOf, known) = IF read = {} THEN {} ELSE {best}
    BY <1>3 DEF Reading, Figure
  <2>4. CASE read = {}
    BY <2>3, <2>4, FS_EmptySet
  <2>5. CASE read # {}
    <3>1. best \in read
      <4> HIDE DEF read
      <4> QED
        BY <2>2, <2>5, PreferredExists
    <3>2. best.value \in Int
      BY <2>2, <3>1 DEF IsFact
    <3> HIDE DEF best
    <3> QED
      BY <2>3, <2>5, <3>2, FS_Singleton
  <2> QED
    BY <2>4, <2>5
<1> QED
  BY <1>1, <1>2, <1>3

LEMMA JudgedIsScored ==
    ASSUME NEW read, IsFiniteSet(read), \A x \in read : x.value \in Int, Judged(read).status = "ok"
    PROVE  Judged(read).score \in Int
<1>1. CASE read = {}
  BY <1>1 DEF Judged, Unusable
<1>2. CASE read # {}
  <2> DEFINE f == [x \in read |-> x.value]
  <2>1. Judged(read).score = TotalValue(read) \div Cardinality(read)
    BY <1>2 DEF Judged, TotalValue
  <2>2. PICK it : IsSum(it, f, read) /\ TotalValue(read) = it[read]
    BY SumOfValues
  <2>3. \A x \in read : f[x] \in Int /\ f[x] <= f[x]
    OBVIOUS
  <2> HIDE DEF f
  <2>4. it[read] \in Int
    BY <2>2, <2>3, SumFacts
  <2>5. Cardinality(read) \in Nat \ {0}
    BY <1>2, FS_CardinalityType, FS_EmptySet
  <2> QED
    BY <2>1, <2>2, <2>4, <2>5, DivisionKeepsOrder
<1> QED
  BY <1>1, <1>2

LEMMA ImageIsFinite ==
    ASSUME NEW S, IsFiniteSet(S), NEW f
    PROVE  IsFiniteSet({f[x] : x \in S})
<1> DEFINE T == {f[x] : x \in S}
           g == [x \in S |-> f[x]]
<1>1. g \in Surjection(S, T)
  BY DEF Surjection
<1> HIDE DEF T, g
<1>2. IsFiniteSet(T)
  BY <1>1, FS_Surjection
<1> QED
  BY <1>2 DEF T

LEMMA ImageIsNoLarger ==
    ASSUME NEW S, IsFiniteSet(S), NEW f
    PROVE  /\ IsFiniteSet({f[x] : x \in S})
           /\ Cardinality({f[x] : x \in S}) <= Cardinality(S)
<1> DEFINE T == {f[x] : x \in S}
           g == [x \in S |-> f[x]]
<1>1. g \in Surjection(S, T)
  BY DEF Surjection
<1> HIDE DEF T, g
<1>2. IsFiniteSet(T) /\ Cardinality(T) <= Cardinality(S)
  BY <1>1, FS_Surjection
<1> QED
  BY <1>2 DEF T

LEMMA CompareScore ==
    ASSUME ShapesInv, StoriesInv, ScoreInv, NEW p \in Procs, NEW embedded \in BOOLEAN,
           Compare(p, embedded)
    PROVE  ScoreInv'
<1> DEFINE w == work[p]
           rows == IF w.answer.store = "news" THEN NewStories(w.answer, w.run, w.retrieved, embedded)
                   ELSE NewFacts(w.answer, w.retrieved)
           l == [pc |-> "compared", store |-> w.answer.store, retrieved |-> w.retrieved, rows |-> rows]
<1>1. w.answer \in Payloads
  BY DEF ShapesInv, Shape, Compare
<1>2. /\ facts' = facts /\ stories' = stories /\ reports' = reports /\ work' = [work EXCEPT ![p] = l]
  BY DEF Compare
<1>3. IsFiniteSet(rows) /\ (w.answer.store # "news" => \A r \in rows : IsFact(r))
  <2>1. CASE w.answer.store = "news"
    <3> DEFINE items == w.answer.items
               known == {s \in stories : s.stock = w.answer.stock}
               pool == {s \in known : s.embedded /\ s.retrieved >= clock - Recent}
               fresh == {i \in DOMAIN items : \A s \in known : s.title # items[i].title}
               orig(i) == IF embedded THEN Original(items, i, {j \in fresh : j < i}, pool) ELSE None
               row(i) == StoryRow(w.answer.stock, items[i], w.retrieved, embedded, orig(i), w.run)
    <3>1. rows = {row(i) : i \in fresh}
      BY <2>1 DEF NewStories
    <3>2. DOMAIN items = 1 .. Len(items) /\ Len(items) \in Nat
      BY <1>1, <2>1, PayloadsAssumption
    <3>3. IsFiniteSet(fresh)
      <4>1. IsFiniteSet(DOMAIN items)
        BY <3>2, FS_Interval
      <4> QED
        BY <4>1, FS_Subset
    <3> DEFINE f == [i \in fresh |-> row(i)]
    <3> HIDE DEF fresh, row, rows
    <3>4. rows = {f[i] : i \in fresh}
      BY <3>1
    <3> HIDE DEF f
    <3>5. IsFiniteSet(rows)
      BY <3>3, <3>4, ImageIsFinite
    <3> QED
      BY <2>1, <3>5
  <2>2. CASE w.answer.store # "news"
    <3> DEFINE same == {f \in facts : /\ f.stock = w.answer.stock /\ f.store = w.answer.store
                                      /\ f.source = w.answer.source}
               row == FactRow(w.answer, w.retrieved, Cardinality(same) + 1)
    <3>1. IsFiniteSet(same) /\ Cardinality(same) \in Nat
      BY FS_Subset, FS_CardinalityType DEF ScoreInv
    <3>2. rows = {} \/ rows = {row}
      BY <2>2 DEF NewFacts
    <3> HIDE DEF same
    <3>3. IsFact(row)
      BY <1>1, <2>2, <3>1, PayloadsAssumption DEF IsFact, FactRow
    <3> HIDE DEF row, rows
    <3>4. IsFiniteSet({row}) /\ IsFiniteSet({})
      BY FS_Singleton, FS_EmptySet
    <3>5. \A r \in rows : IsFact(r)
      BY <3>2, <3>3
    <3> QED
      BY <3>2, <3>4, <3>5
  <2> QED
    BY <2>1, <2>2
<1> HIDE DEF rows
<1>4. ASSUME NEW q \in Procs
      PROVE  /\ work'[q].pc = "compared" =>
                  /\ IsFiniteSet(work'[q].rows)
                  /\ work'[q].store # "news" => \A r \in work'[q].rows : IsFact(r)
             /\ work'[q].pc \in Analysing => AreScored(work'[q].outs)
  <2>1. CASE q = p
    <3>1. work'[q].pc = "compared" /\ work'[q].store = w.answer.store /\ work'[q].rows = rows
      BY <1>2, <2>1 DEF ShapesInv
    <3> QED
      BY <1>3, <3>1 DEF Analysing
  <2>2. CASE q # p
    BY <1>2, <2>2 DEF ScoreInv, ShapesInv
  <2> QED
    BY <2>1, <2>2
<1> QED
  BY <1>2, <1>4 DEF ScoreInv

LEMMA IngestScore ==
    ASSUME ShapesInv, ScoreInv, NEW p \in Procs, Ingest(p)
    PROVE  ScoreInv'
<1> DEFINE w == work[p]
           stored(r) == [r EXCEPT !.stored = clock]
<1>1. /\ IsFiniteSet(w.rows) /\ (w.store # "news" => \A r \in w.rows : IsFact(r)) /\ w.pc = "compared"
  BY DEF ScoreInv, Ingest
<1>2. /\ facts' = facts \/ (facts' = facts \cup w.rows /\ w.store # "news")
      /\ stories' = stories \/ stories' = stories \cup {stored(r) : r \in w.rows}
  BY DEF Ingest
<1>3. IsFiniteSet(facts') /\ \A f \in facts' : IsFact(f)
  <2>1. IsFiniteSet(facts \cup w.rows)
    BY <1>1, FS_Union DEF ScoreInv
  <2> QED
    BY <1>1, <1>2, <2>1 DEF ScoreInv
<1>4. IsFiniteSet(stories')
  <2> DEFINE f == [r \in w.rows |-> stored(r)]
             added == {stored(r) : r \in w.rows}
  <2> HIDE DEF stored
  <2>0. added = {f[r] : r \in w.rows}
    OBVIOUS
  <2> HIDE DEF f
  <2>1. IsFiniteSet(added)
    BY <1>1, <2>0, ImageIsFinite
  <2>2. IsFiniteSet(stories \cup {stored(r) : r \in w.rows})
    BY <2>1, FS_Union DEF ScoreInv
  <2> QED
    BY <1>2, <2>2 DEF ScoreInv
<1>5. ASSUME NEW q \in Procs
      PROVE  /\ work'[q].pc = "compared" =>
                  /\ IsFiniteSet(work'[q].rows)
                  /\ work'[q].store # "news" => \A r \in work'[q].rows : IsFact(r)
             /\ work'[q].pc \in Analysing => AreScored(work'[q].outs)
  <2>1. CASE q = p
    <3>1. work'[q] = Idle
      BY <2>1 DEF Ingest, ShapesInv
    <3> QED
      BY <3>1 DEF Idle, Analysing
  <2>2. CASE q # p
    <3>1. \/ work'[q] = work[q]
          \/ /\ work'[q] = [work[q] EXCEPT !.late = Overtaken(work[q], w)]
             /\ "outs" \in DOMAIN work[q]
      BY <2>2 DEF Ingest, ShapesInv
    <3>2. CASE work'[q] = work[q]
      BY <3>2 DEF ScoreInv
    <3>3. CASE /\ work'[q] = [work[q] EXCEPT !.late = Overtaken(work[q], w)]
               /\ "outs" \in DOMAIN work[q]
      <4>1. Shape(work[q], clock, jobs) /\ work[q].pc \in Analysing
        BY <3>3, OutsOfAnalyses DEF ShapesInv
      <4>2. work'[q].pc = work[q].pc /\ \A f \in DOMAIN work[q] \ {"late"} : work'[q][f] = work[q][f]
        BY <3>3, <4>1, MarkedShape
      <4>3. work'[q].outs = work[q].outs
        BY <3>3, <4>2
      <4> QED
        BY <4>1, <4>2, <4>3 DEF ScoreInv, Analysing
    <3> QED
      BY <3>1, <3>2, <3>3
  <2> QED
    BY <2>1, <2>2
<1>6. ASSUME NEW i \in DOMAIN reports' PROVE AreScored(reports'[i].outs)
  <2>1. i \in DOMAIN reports /\ reports'[i].outs = reports[i].outs
    BY DEF Ingest, ShapesInv, ReportFields
  <2> QED
    BY <2>1 DEF ScoreInv
<1> QED
  BY <1>3, <1>4, <1>5, <1>6 DEF ScoreInv

\* A step after which stores are as before, and so are workers and reports, but for
\* analyses whose outputs are scored.
LEMMA ScoreMoves ==
    ASSUME ScoreInv, facts' = facts, stories' = stories,
           \A q \in Procs : \/ work'[q] = work[q]
                            \/ work'[q].pc \in {"idle", "fetched", "ranking"}
                            \/ work'[q].pc \in Analysing /\ AreScored(work'[q].outs),
           \A i \in DOMAIN reports' : \/ i \in DOMAIN reports /\ reports'[i] = reports[i]
                                      \/ AreScored(reports'[i].outs)
    PROVE  ScoreInv'
BY DEF ScoreInv, Analysing

LEMMA NothingScored == AreScored(<<>>)
BY FS_EmptySet DEF AreScored

LEMMA RunAgentScore ==
    ASSUME ShapesInv, StoriesInv, ScoreInv, NEW p \in Procs, RunAgent(p)
    PROVE  ScoreInv'
<1>1. PICK a, got, pc : /\ a = Head(work[p].left)
                        /\ work' = [work EXCEPT ![p] = [Noted(work[p], a, got) EXCEPT !.pc = pc]]
                        /\ pc \in {"agents", "features"} /\ DOMAIN work[p] = AnalysisFields
                        /\ \/ got = Judged(Reading(a, work[p].stock, work[p].asOf, work[p].known))
                           \/ got = Unusable("failed")
  BY AgentStep
<1>2. PICK w, n, l : w = work[p] /\ n = Noted(w, a, got) /\ l = [n EXCEPT !.pc = pc]
  OBVIOUS
<1>3. /\ DOMAIN n = AnalysisFields /\ DOMAIN n.outs = DOMAIN w.outs \cup {a}
      /\ n.outs[a] = got /\ \A b \in DOMAIN w.outs \ {a} : n.outs[b] = w.outs[b]
  BY <1>1, <1>2, NotedFacts
<1>4. l.pc = pc /\ l.outs = n.outs
  BY <1>2, <1>3 DEF AnalysisFields
<1>5. AreScored(w.outs)
  BY <1>2 DEF ScoreInv, RunAgent, Analysing
<1>6. got.status = "ok" => got.score \in Int
  <2>1. CASE got = Judged(Reading(a, w.stock, w.asOf, w.known))
    <3>1. PICK read : read = Reading(a, w.stock, w.asOf, w.known)
      OBVIOUS
    <3>2. IsFiniteSet(read) /\ \A x \in read : x.value \in Int
      BY <3>1, ReadingsAreValued
    <3> QED
      BY <2>1, <3>1, <3>2, JudgedIsScored
  <2>2. CASE got = Unusable("failed")
    BY <2>2 DEF Unusable
  <2> QED
    BY <1>1, <1>2, <2>1, <2>2
<1>7. AreScored(l.outs)
  <2>1. IsFiniteSet(DOMAIN n.outs)
    BY <1>3, <1>5, FS_AddElement DEF AreScored
  <2>2. \A b \in DOMAIN n.outs : n.outs[b].status = "ok" => n.outs[b].score \in Int
    BY <1>3, <1>5, <1>6 DEF AreScored
  <2> QED
    BY <1>4, <2>1, <2>2 DEF AreScored
<1>8. work' = [work EXCEPT ![p] = l] /\ DOMAIN work = Procs
  BY <1>1, <1>2 DEF ShapesInv
<1>9. \A q \in Procs : work'[q] = work[q] \/ (work'[q].pc \in Analysing /\ AreScored(work'[q].outs))
  BY <1>1, <1>4, <1>7, <1>8 DEF Analysing
<1> QED
  BY <1>9, ScoreMoves DEF RunAgent

LEMMA StoreFeaturesScore ==
    ASSUME ShapesInv, ScoreInv, NEW p \in Procs, StoreFeatures(p)
    PROVE  ScoreInv'
<1>1. PICK w, l : w = work[p] /\ l = [w EXCEPT !.pc = "agents"]
  OBVIOUS
<1>2. /\ work' = [work EXCEPT ![p] = l] \/ work' = [work EXCEPT ![p] = Idle]
      /\ DOMAIN work = Procs
  BY <1>1 DEF StoreFeatures, ShapesInv
<1>3. DOMAIN w = AnalysisFields /\ AreScored(w.outs)
  BY <1>1 DEF ShapesInv, Shape, StoreFeatures, Analysing, ScoreInv
<1>4. l.outs = w.outs /\ l.pc = "agents"
  BY <1>1, <1>3 DEF AnalysisFields
<1>5. \A q \in Procs : \/ work'[q] = work[q] \/ work'[q].pc = "idle"
                       \/ work'[q].pc \in Analysing /\ AreScored(work'[q].outs)
  BY <1>2, <1>3, <1>4 DEF Analysing, Idle
<1> QED
  BY <1>5, ScoreMoves DEF StoreFeatures

LEMMA NarrateScore ==
    ASSUME ShapesInv, ScoreInv, NEW p \in Procs, Narrate(p)
    PROVE  ScoreInv'
<1>1. work'[p].pc = "narrated" /\ work'[p].outs = work[p].outs
  BY NarrateShapes DEF AnalysisFields
<1>2. AreScored(work[p].outs)
  BY DEF ScoreInv, Narrate, Analysing
<1>3. \A q \in Procs : work'[q] = work[q] \/ (work'[q].pc \in Analysing /\ AreScored(work'[q].outs))
  BY <1>1, <1>2 DEF Narrate, Analysing, ShapesInv
<1> QED
  BY <1>3, ScoreMoves DEF Narrate

LEMMA StoreReportScore ==
    ASSUME ShapesInv, ScoreInv, NEW p \in Procs, StoreReport(p)
    PROVE  ScoreInv'
<1> DEFINE row == ReportRow(work[p])
           l == IF work[p].ranking = None THEN Idle ELSE work[p].ranking
<1>1. row.outs = work[p].outs
  BY DEF ReportRow
<1>2. AreScored(work[p].outs)
  BY DEF ScoreInv, StoreReport, Analysing
<1>3. l.pc \in {"idle", "ranking"}
  BY DEF ShapesInv, Shape, StoreReport, Analysing, IsRanking, Idle
<1>4. work' = [work EXCEPT ![p] = l] /\ reports' = Append(reports, row) /\ DOMAIN work = Procs
  BY DEF StoreReport, ShapesInv
<1> HIDE DEF l, row
<1>5. /\ DOMAIN reports' = 1 .. Len(reports) + 1 /\ DOMAIN reports = 1 .. Len(reports)
      /\ reports'[Len(reports) + 1] = row /\ Len(reports) \in Nat
      /\ \A i \in 1 .. Len(reports) : reports'[i] = reports[i]
  BY <1>4, Appended DEF ShapesInv, IsTable
<1>6. \A i \in DOMAIN reports' : \/ i \in DOMAIN reports /\ reports'[i] = reports[i]
                                 \/ AreScored(reports'[i].outs)
  <2> SUFFICES ASSUME NEW i \in DOMAIN reports', i \notin DOMAIN reports PROVE reports'[i] = row
    BY <1>1, <1>2, <1>5
  <2> QED
    BY <1>5
<1>7. \A q \in Procs : work'[q] = work[q] \/ work'[q].pc \in {"idle", "ranking"}
  BY <1>3, <1>4
<1> QED
  BY <1>6, <1>7, ScoreMoves DEF StoreReport

LEMMA RestScore ==
    ASSUME ShapesInv, ScoreInv,
           \/ Tick \/ Trade \/ Redeploy \/ UNCHANGED vars
           \/ \E p \in Procs :
                \/ \E answer \in Payloads : Fetch(p, answer)
                \/ \E s \in ToSet(Stocks), q \in Questions :
                      Request(p, s, clock - q.back, clock + q.ahead, q.fit)
                \/ \E refresh \in BOOLEAN : StartRanking(p, refresh)
                \/ CheckReport(p) \/ Evaluate(p) \/ Die(p)
    PROVE  ScoreInv'
<1>1. facts' = facts /\ stories' = stories /\ reports' = reports
  BY DEF Tick, Trade, Redeploy, vars, Fetch, Request, StartRanking, CheckReport, Evaluate, Die
<1>2. ASSUME NEW stock, NEW asOf, NEW known, NEW fit, NEW ranking
      PROVE  LET l == Analysis(stock, asOf, known, fit, ranking)
             IN  l.pc \in Analysing /\ AreScored(l.outs)
  BY NothingScored DEF Analysis, Analysing
<1>3. ASSUME NEW p \in Procs, CheckReport(p)
      PROVE  \A q \in Procs : \/ work'[q] = work[q] \/ work'[q].pc = "ranking"
                              \/ work'[q].pc \in Analysing /\ AreScored(work'[q].outs)
  <2>1. PICK next : next = [work[p] EXCEPT !.todo = Tail(work[p].todo)]
    OBVIOUS
  <2>2. next.pc = "ranking"
    <3>1. PICK w : w = work[p]
      OBVIOUS
    <3>2. w.pc = "ranking" /\ IsRanking(w, clock)
      BY <1>3, <3>1 DEF ShapesInv, Shape, CheckReport, Analysing
    <3> QED
      BY <2>1, <3>1, <3>2 DEF IsRanking
  <2>3. \/ work' = [work EXCEPT ![p] = next]
        \/ \E l : work' = [work EXCEPT ![p] = l] /\ l.pc \in Analysing /\ AreScored(l.outs)
    BY <1>2, <1>3, <2>1 DEF CheckReport
  <2> QED
    BY <2>2, <2>3 DEF ShapesInv
<1>4. \A q \in Procs : \/ work'[q] = work[q]
                       \/ work'[q].pc \in {"idle", "fetched", "ranking"}
                       \/ work'[q].pc \in Analysing /\ AreScored(work'[q].outs)
  <2>1. CASE \E p \in Procs : CheckReport(p)
    BY <1>3, <2>1
  <2>2. CASE \E p \in Procs : \E s \in ToSet(Stocks), q \in Questions :
                Request(p, s, clock - q.back, clock + q.ahead, q.fit)
    BY <1>2, <2>2 DEF Request, ShapesInv
  <2>3. CASE \/ Tick \/ Trade \/ Redeploy \/ UNCHANGED vars
             \/ \E p \in Procs :
                  \/ \E answer \in Payloads : Fetch(p, answer)
                  \/ \E refresh \in BOOLEAN : StartRanking(p, refresh)
                  \/ Evaluate(p) \/ Die(p)
    BY <2>3 DEF Tick, Trade, Redeploy, vars, Fetch, StartRanking, Evaluate, Die, Idle, ShapesInv
  <2> QED
    BY <2>1, <2>2, <2>3
<1> QED
  BY <1>1, <1>4, ScoreMoves

LEMMA StepScore == ShapesInv /\ StoriesInv /\ ScoreInv /\ [Next]_vars => ScoreInv'
BY CompareScore, IngestScore, RunAgentScore, StoreFeaturesScore, NarrateScore, StoreReportScore,
   RestScore, EmbedsAssumption
   DEF Next

LEMMA InitScore == Init => ScoreInv
BY StoredAssumption, FS_EmptySet DEF Init, ScoreInv, IsFact, Idle, Analysing

LEMMA ScoreHolds == Spec => [](ShapesInv /\ StoriesInv /\ ScoreInv)
<1>1. Init => ShapesInv /\ StoriesInv /\ ScoreInv
  BY InitShapes, InitStories, InitScore
<1>2. ShapesInv /\ StoriesInv /\ ScoreInv /\ [Next]_vars => ShapesInv' /\ StoriesInv' /\ ScoreInv'
  BY StepShapes, StepStories, StepScore
<1> QED
  BY <1>1, <1>2, PTL DEF Spec

\* A report whose agents score no better than those of another one, agent by agent and
\* with the same ones usable, has no better stance: the weights, the quorum and the
\* vetoes of the orchestrator never turn a better score into a worse advice.
THEOREM BetterScoresAdviseNoWorse == Spec => []BetterIsNeverWorse
<1>1. ReplayInv /\ ScoreInv => BetterIsNeverWorse
  <2> SUFFICES ASSUME ReplayInv, ScoreInv, NEW i \in DOMAIN reports, NEW j \in DOMAIN reports,
                      NoBetter(reports[i], reports[j])
               PROVE  Rank(reports[i].synthesis.stance) <= Rank(reports[j].synthesis.stance)
    BY DEF BetterIsNeverWorse
  <2>1. PICK q, r : q = reports[i].outs /\ r = reports[j].outs
    OBVIOUS
  <2>2. AreScored(q) /\ AreScored(r) /\ ScoresNoBetter(q, r)
    BY <2>1 DEF ScoreInv, NoBetter, ScoresNoBetter
  <2>3. reports[i].synthesis.stance = Stance(q) /\ reports[j].synthesis.stance = Stance(r)
    <3>1. reports[i].synthesis = Synthesize(q) /\ reports[j].synthesis = Synthesize(r)
      BY <2>1 DEF ReplayInv
    <3> QED
      BY <3>1 DEF Synthesize
  <2> QED
    BY <2>2, <2>3, StanceKeepsOrder
<1> QED
  BY <1>1, ReplayHolds, ScoreHolds, PTL

-----------------------------------------------------------------------------
(* The agents' own scores                                                   *)

\* Sums of functions.

\* What holds of a finite set if it holds of all sets with one element less.
LEMMA FiniteSetInduction ==
    ASSUME NEW S, IsFiniteSet(S), NEW T,
           \A u \in SUBSET S : (\A x \in u : u \ {x} \in T) => u \in T
    PROVE  SUBSET S \subseteq T
<1> DEFINE Bad == {Cardinality(u) : u \in {v \in SUBSET S : v \notin T}}
<1> SUFFICES ASSUME ~(SUBSET S \subseteq T) PROVE FALSE
  OBVIOUS
<1>1. Bad \in SUBSET Nat /\ Bad # {}
  BY FS_Subset, FS_CardinalityType
<1>2. PICK m \in Bad : \A i \in Bad : m <= i
  BY <1>1, LeastOfNaturals
<1>3. PICK u \in SUBSET S : u \notin T /\ m = Cardinality(u)
  BY <1>2
<1>4. ASSUME NEW x \in u PROVE u \ {x} \in T
  <2>1. IsFiniteSet(u)
    BY FS_Subset
  <2>2. Cardinality(u \ {x}) = m - 1
    BY <1>3, <2>1, FS_RemoveElement
  <2>3. m - 1 \notin Bad
    <3> HIDE DEF Bad
    <3> QED
      BY <1>1, <1>2
  <2> QED
    BY <2>2, <2>3
<1> QED
  BY <1>3, <1>4

\* it is the sum of f over every subset of S, and any element may be added last.
Totals(it, f, S) ==
    /\ it[{}] = 0
    /\ \A u \in SUBSET S : it[u] \in Int /\ \A x \in u : it[u] = f[x] + it[u \ {x}]

Numbers(f, S) == \A x \in S : f[x] \in Int

LEMMA SumSteps ==
    ASSUME NEW S, IsFiniteSet(S), NEW f, NEW it, IsSum(it, f, S), Numbers(f, S)
    PROVE  Totals(it, f, S)
<1> USE DEF Numbers
<1> DEFINE Stepwise(u) == it[u] \in Int /\ \A x \in u : it[u] = f[x] + it[u \ {x}]
           T == {u \in SUBSET S : \A v \in SUBSET u : Stepwise(v)}
<1>1. \A u \in SUBSET S : it[u] = IF u = {} THEN 0 ELSE f[Chosen(u)] + it[u \ {Chosen(u)}]
  BY DEF IsSum
<1>2. ASSUME NEW u \in SUBSET S, \A x \in u : u \ {x} \in T PROVE u \in T
  <2>1. ASSUME NEW v \in SUBSET u, v # u PROVE Stepwise(v)
    <3>1. PICK x \in u : x \notin v
      BY <2>1
    <3>2. v \in SUBSET (u \ {x}) /\ u \ {x} \in T
      BY <1>2, <3>1
    <3> QED
      BY <3>2
  <2>2. CASE u = {}
    <3>1. it[u] = 0
      BY <1>1, <2>2
    <3> QED
      BY <2>2, <3>1
  <2>3. CASE u # {}
    <3> DEFINE c == Chosen(u)
    <3>1. c \in u /\ f[c] \in Int
      BY <2>3 DEF Chosen
    <3> HIDE DEF c, Stepwise
    <3>2. Stepwise(u \ {c})
      BY <2>1, <3>1
    <3>3. it[u] = f[c] + it[u \ {c}] /\ it[u \ {c}] \in Int
      BY <1>1, <2>3, <3>2 DEF c, Stepwise
    <3>4. ASSUME NEW x \in u, x # c PROVE it[u] = f[x] + it[u \ {x}]
      <4> DEFINE v == (u \ {c}) \ {x}
      <4>1. Stepwise(u \ {x}) /\ Stepwise(v)
        BY <2>1, <3>1
      <4>2. x \in u \ {c} /\ c \in u \ {x} /\ v = (u \ {x}) \ {c}
        BY <3>1, <3>4
      <4>3. it[u \ {c}] = f[x] + it[v] /\ it[u \ {x}] = f[c] + it[v] /\ it[v] \in Int
        BY <3>2, <4>1, <4>2 DEF Stepwise
      <4>4. f[x] \in Int
        OBVIOUS
      <4> HIDE DEF v
      <4> QED
        BY <3>1, <3>3, <4>3, <4>4
    <3>5. ASSUME NEW x \in u PROVE it[u] = f[x] + it[u \ {x}]
      <4>1. CASE x = c
        BY <3>3, <4>1
      <4> QED
        BY <3>4, <4>1
    <3>6. it[u] \in Int
      BY <3>1, <3>3
    <3>7. Stepwise(u)
      BY <3>5, <3>6 DEF Stepwise
    <3> QED
      BY <2>1, <3>7
  <2> QED
    BY <2>2, <2>3
<1>3. SUBSET S \subseteq T
  <2> HIDE DEF T
  <2> QED
    BY <1>2, FiniteSetInduction
<1>4. it[{}] = 0
  BY <1>1
<1> QED
  BY <1>3, <1>4 DEF Totals

\* The fold of the model is such a sum.
On(f, S) == SumFunctionOnSet(f, S)

LEMMA SumOnSet ==
    ASSUME NEW S, IsFiniteSet(S), NEW f
    PROVE  \E it : IsSum(it, f, S) /\ On(f, S) = it[S]
<1> DEFINE Folds(it) == it = [s \in SUBSET S |-> IF s = {} THEN 0
                                ELSE f[CHOOSE x \in s : TRUE] + it[s \ {CHOOSE x \in s : TRUE}]]
<1>1. On(f, S) = (CHOOSE it : Folds(it))[S]
  BY Zenon DEF On, SumFunctionOnSet, FoldFunctionOnSet, MapThenFoldSet
<1>2. ASSUME NEW it PROVE IsSum(it, f, S) <=> Folds(it)
  BY DEF IsSum, Chosen
<1>3. PICK it : IsSum(it, f, S)
  BY SumExists
<1> HIDE DEF Folds
<1>4. Folds(CHOOSE jt : Folds(jt))
  BY <1>2, <1>3
<1>5. IsSum(CHOOSE jt : Folds(jt), f, S)
  BY <1>2, <1>4
<1> QED
  BY <1>1, <1>5

LEMMA SumIsOn ==
    ASSUME NEW f
    PROVE  SumFunction(f) = On(f, DOMAIN f)
BY DEF SumFunction, On

\* It has the sum of every part of the set.
LEMMA SumTotals ==
    ASSUME NEW S, IsFiniteSet(S), NEW f, Numbers(f, S)
    PROVE  \E it : Totals(it, f, S) /\ On(f, S) = it[S]
BY SumOnSet, SumSteps, Zenon

LEMMA SumTypes ==
    ASSUME NEW S, IsFiniteSet(S), NEW f, \A x \in S : f[x] \in Int
    PROVE  /\ On(f, S) \in Int
           /\ S = {} => On(f, S) = 0
           /\ \A x : S = {x} => On(f, S) = f[x]
<1>0. Numbers(f, S)
  BY DEF Numbers
<1>1. PICK it : Totals(it, f, S) /\ On(f, S) = it[S]
  BY <1>0, SumTotals
<1>2. it[S] \in Int
  BY <1>1 DEF Totals
<1>3. ASSUME NEW x, S = {x} PROVE On(f, S) = f[x]
  <2>1. S \in SUBSET S /\ x \in S /\ S \ {x} = {}
    BY <1>3
  <2>2. it[S] = f[x] + it[{}] /\ f[x] \in Int
    BY <1>1, <2>1 DEF Totals
  <2> QED
    BY <1>1, <2>2 DEF Totals
<1>4. S = {} => On(f, S) = 0
  BY <1>1 DEF Totals
<1> QED
  BY <1>1, <1>2, <1>3, <1>4

LEMMA SumOrder ==
    ASSUME NEW S, IsFiniteSet(S), NEW f, NEW g,
           \A x \in S : f[x] \in Int /\ g[x] \in Int /\ f[x] <= g[x]
    PROVE  /\ On(f, S) \in Int /\ On(g, S) \in Int /\ On(f, S) <= On(g, S)
           /\ (\A x \in S : f[x] >= 0) => On(f, S) >= 0
<1>1. PICK it : IsSum(it, f, S) /\ On(f, S) = it[S]
  BY SumOnSet
<1>2. PICK jt : IsSum(jt, g, S) /\ On(g, S) = jt[S]
  BY SumOnSet
<1> QED
  BY <1>1, <1>2, SumFacts

LEMMA SumSame ==
    ASSUME NEW S, IsFiniteSet(S), NEW f, NEW g, \A x \in S : f[x] \in Int /\ f[x] = g[x]
    PROVE  On(f, S) = On(g, S) /\ On(f, S) \in Int
<1>1. On(f, S) <= On(g, S) /\ On(f, S) \in Int /\ On(g, S) \in Int
  BY SumOrder
<1>2. On(g, S) <= On(f, S)
  BY SumOrder
<1> QED
  BY <1>1, <1>2

LEMMA SumScaled ==
    ASSUME NEW S, IsFiniteSet(S), NEW f, NEW k \in Int, \A x \in S : f[x] \in Int
    PROVE  On([x \in S |-> k * f[x]], S) = k * On(f, S)
<1> DEFINE g == [x \in S |-> k * f[x]]
<1>1. \A x \in S : g[x] \in Int /\ g[x] = k * f[x]
  OBVIOUS
<1> HIDE DEF g
<1>2. Numbers(f, S) /\ Numbers(g, S)
  BY <1>1 DEF Numbers
<1>3. PICK it : Totals(it, f, S) /\ On(f, S) = it[S]
  BY <1>2, SumTotals
<1>4. /\ it[{}] = 0
      /\ \A u \in SUBSET S : it[u] \in Int /\ \A x \in u : it[u] = f[x] + it[u \ {x}]
  BY <1>3 DEF Totals
<1>5. PICK jt : Totals(jt, g, S) /\ On(g, S) = jt[S]
  BY <1>2, SumTotals
<1>d. /\ jt[{}] = 0
      /\ \A u \in SUBSET S : jt[u] \in Int /\ \A x \in u : jt[u] = g[x] + jt[u \ {x}]
  BY <1>5 DEF Totals
<1> DEFINE T == {u \in SUBSET S : jt[u] = k * it[u]}
<1>6. ASSUME NEW u \in SUBSET S, \A x \in u : u \ {x} \in T PROVE u \in T
  <2>1. CASE u = {}
    BY <1>4, <1>d, <2>1
  <2>2. CASE u # {}
    <3>1. PICK x \in u : TRUE
      BY <2>2
    <3>2. jt[u \ {x}] = k * it[u \ {x}] /\ it[u \ {x}] \in Int /\ f[x] \in Int
      BY <1>4, <1>6, <3>1
    <3>3. it[u] = f[x] + it[u \ {x}] /\ jt[u] = k * f[x] + jt[u \ {x}]
      BY <1>1, <1>4, <1>d, <3>1
    <3>4. \A a, b \in Int : k * (a + b) = k * a + k * b
      OBVIOUS
    <3> QED
      BY <3>2, <3>3, <3>4
  <2> QED
    BY <2>1, <2>2
<1>7. SUBSET S \subseteq T
  <2> HIDE DEF T
  <2> QED
    BY <1>6, FiniteSetInduction
<1> QED
  BY <1>3, <1>5, <1>7 DEF g

\* A sum over a set without what adds nothing.
LEMMA SumWithout ==
    ASSUME NEW S, IsFiniteSet(S), NEW s \in SUBSET S, NEW f, \A x \in S : f[x] \in Nat
    PROVE  /\ On(f, s) \in Nat /\ On(f, S) \in Nat /\ On(f, s) <= On(f, S)
           /\ (\A x \in S \ s : f[x] = 0) => On(f, s) = On(f, S)
<1>0. Numbers(f, S)
  BY DEF Numbers
<1>1. PICK it : Totals(it, f, S) /\ On(f, S) = it[S]
  BY <1>0, SumTotals
<1>2. /\ it[{}] = 0
      /\ \A u \in SUBSET S : it[u] \in Int /\ \A x \in u : it[u] = f[x] + it[u \ {x}]
  BY <1>1 DEF Totals
<1>3. IsFiniteSet(s)
  BY FS_Subset
<1>4. PICK jt : Totals(jt, f, s) /\ On(f, s) = jt[s]
  <2>1. Numbers(f, s)
    BY <1>0 DEF Numbers
  <2> QED
    BY <1>3, <2>1, SumTotals
<1>5. /\ jt[{}] = 0
      /\ \A u \in SUBSET s : jt[u] \in Int /\ \A x \in u : jt[u] = f[x] + jt[u \ {x}]
  BY <1>4 DEF Totals
<1> DEFINE Same == {u \in SUBSET s : it[u] = jt[u] /\ it[u] >= 0}
<1>6. ASSUME NEW u \in SUBSET s, \A x \in u : u \ {x} \in Same PROVE u \in Same
  <2>1. CASE u = {}
    BY <1>2, <1>5, <2>1
  <2>2. CASE u # {}
    <3>1. PICK x \in u : TRUE
      BY <2>2
    <3>2. it[u \ {x}] = jt[u \ {x}] /\ it[u \ {x}] >= 0 /\ it[u \ {x}] \in Int /\ f[x] \in Nat
      BY <1>2, <1>6, <3>1
    <3>3. it[u] = f[x] + it[u \ {x}] /\ jt[u] = f[x] + jt[u \ {x}]
      BY <1>2, <1>5, <3>1
    <3> QED
      BY <3>2, <3>3
  <2> QED
    BY <2>1, <2>2
<1>7. s \in Same
  <2>1. SUBSET s \subseteq Same
    <3> HIDE DEF Same
    <3> QED
      BY <1>3, <1>6, FiniteSetInduction
  <2> QED
    BY <2>1
<1> DEFINE Above(u) == /\ it[s] <= it[u]
                       /\ (\A x \in S \ s : f[x] = 0) => it[s] = it[u]
           T == {u \in SUBSET S : s \subseteq u => Above(u)}
<1>8. ASSUME NEW u \in SUBSET S, \A x \in u : u \ {x} \in T PROVE u \in T
  <2> SUFFICES ASSUME s \subseteq u, u # s PROVE Above(u)
    <3>1. Above(s)
      BY <1>2
    <3> QED
      BY <3>1
  <2>1. PICK x \in u : x \notin s
    OBVIOUS
  <2>2. Above(u \ {x})
    BY <1>8, <2>1
  <2>3. it[u] = f[x] + it[u \ {x}] /\ it[u \ {x}] \in Int /\ it[s] \in Int /\ f[x] \in Nat
    BY <1>2, <2>1
  <2> QED
    BY <2>1, <2>2, <2>3
<1>9. Above(S)
  <2>1. SUBSET S \subseteq T
    <3> HIDE DEF T
    <3> QED
      BY <1>8, FiniteSetInduction
  <2> QED
    BY <2>1
<1> QED
  BY <1>1, <1>2, <1>4, <1>7, <1>9

\* A sum of numbers within bounds.
LEMMA SumWithin ==
    ASSUME NEW S, IsFiniteSet(S), NEW f, NEW lo \in Int, NEW hi \in Int,
           \A x \in S : f[x] \in Int /\ lo <= f[x] /\ f[x] <= hi
    PROVE  /\ On(f, S) \in Int /\ Cardinality(S) \in Nat
           /\ lo * Cardinality(S) <= On(f, S) /\ On(f, S) <= hi * Cardinality(S)
<1>0. Numbers(f, S)
  BY DEF Numbers
<1>1. PICK it : Totals(it, f, S) /\ On(f, S) = it[S]
  BY <1>0, SumTotals
<1>2. /\ it[{}] = 0
      /\ \A u \in SUBSET S : it[u] \in Int /\ \A x \in u : it[u] = f[x] + it[u \ {x}]
  BY <1>1 DEF Totals
<1> DEFINE T == {u \in SUBSET S : lo * Cardinality(u) <= it[u] /\ it[u] <= hi * Cardinality(u)}
<1>3. ASSUME NEW u \in SUBSET S, \A x \in u : u \ {x} \in T PROVE u \in T
  <2>1. CASE u = {}
    <3>1. Cardinality(u) = 0
      BY <2>1, FS_EmptySet
    <3> QED
      BY <1>2, <2>1, <3>1
  <2>2. CASE u # {}
    <3>1. PICK x \in u : TRUE
      BY <2>2
    <3> DEFINE n == Cardinality(u \ {x})
               w == it[u \ {x}]
    <3>2. IsFiniteSet(u)
      BY FS_Subset
    <3>3. n = Cardinality(u) - 1 /\ n \in Nat /\ Cardinality(u) \in Nat
      BY <3>1, <3>2, FS_RemoveElement, FS_CardinalityType
    <3>4. lo * n <= w /\ w <= hi * n /\ w \in Int /\ f[x] \in Int /\ lo <= f[x] /\ f[x] <= hi
      BY <1>2, <1>3, <3>1
    <3>5. it[u] = f[x] + w
      BY <1>2, <3>1
    <3> HIDE DEF n, w
    <3>6. lo * (n + 1) = lo * n + lo /\ hi * (n + 1) = hi * n + hi
      BY <3>3
    <3>7. Cardinality(u) = n + 1
      BY <3>3
    <3>8. lo * n \in Int /\ hi * n \in Int
      BY <3>3
    <3>9. lo * n + lo <= f[x] + w /\ f[x] + w <= hi * n + hi
      BY <3>4, <3>8
    <3> QED
      BY <3>5, <3>6, <3>7, <3>9
  <2> QED
    BY <2>1, <2>2
<1>4. SUBSET S \subseteq T
  <2> HIDE DEF T
  <2> QED
    BY <1>3, FiniteSetInduction
<1> QED
  BY <1>1, <1>2, <1>4, FS_CardinalityType

\* A quotient is within the bounds that hold of the dividend.
LEMMA DivisionWithin ==
    ASSUME NEW n \in Nat \ {0}, NEW x \in Int, NEW lo \in Int, NEW hi \in Int,
           lo * n <= x, x <= hi * n
    PROVE  x \div n \in lo .. hi
<1> DEFINE q == x \div n
<1>1. q \in Int /\ q * n <= x /\ x < q * n + n
  OBVIOUS
<1> HIDE DEF q
<1>2. ASSUME q < lo PROVE FALSE
  <2>1. (q + 1) * n <= lo * n
    BY <1>1, <1>2
  <2>2. (q + 1) * n = q * n + n
    BY <1>1
  <2> QED
    BY <1>1, <2>1, <2>2
<1>3. ASSUME q > hi PROVE FALSE
  <2>1. (hi + 1) * n <= q * n
    BY <1>1, <1>3
  <2>2. (hi + 1) * n = hi * n + n
    BY <1>1
  <2> QED
    BY <1>1, <2>1, <2>2
<1> QED
  BY <1>1, <1>2, <1>3 DEF q

\* Signals, and what the scoring formula makes of them.

Scores == 0 .. 10000

Signal(s) == s.dir \in -1 .. 1 /\ s.strength \in 0 .. 100
Signals(S) == IsFiniteSet(S) /\ \A s \in S : Signal(s)

\* The strength of a signal is clipped, its direction is a sign.
LEMMA SigIsSignal ==
    ASSUME NEW name, NEW category, NEW value \in Int, NEW strength \in Int
    PROVE  Signals({Sig(name, category, value, strength)})
<1> DEFINE s == Sig(name, category, value, strength)
<1>1. s.dir \in -1 .. 1 /\ s.strength \in 0 .. 100
  BY DEF Sig, Direction, Clipped, Between, Least, Most
<1> HIDE DEF s
<1> QED
  BY <1>1, FS_Singleton DEF Signals, Signal, s

LEMMA SignalsTogether ==
    /\ Signals({})
    /\ \A S, T : Signals(S) /\ Signals(T) => Signals(S \cup T)
    /\ \A S : Signals(S) => \A T \in SUBSET S : Signals(T)
BY FS_EmptySet, FS_Union, FS_Subset DEF Signals

\* Signals that depend on a condition.
LEMMA WhenSignals ==
    ASSUME NEW p, NEW S, p => Signals(S)
    PROVE  Signals(When(p, S))
BY SignalsTogether DEF When

\* The net of some signals is at most what the directed ones carry.
LEMMA NetWithinPull ==
    ASSUME NEW S, Signals(S)
    PROVE  /\ Net(S) \in Int /\ Pull(Directed(S)) \in Nat
           /\ -Pull(Directed(S)) <= Net(S) /\ Net(S) <= Pull(Directed(S))
           /\ Cardinality(S) \in Nat
           /\ -100 * Cardinality(S) <= Net(S) /\ Net(S) <= 100 * Cardinality(S)
<1> DEFINE D == Directed(S)
           net == [s \in S |-> s.dir * s.strength]
           force == [s \in D |-> s.strength]
           h == [s \in S |-> IF s.dir # 0 THEN s.strength ELSE 0]

<1>0. PICK k \in Int : k = -1
  OBVIOUS
<1> DEFINE n == [s \in S |-> k * h[s]]
<1>1. IsFiniteSet(S) /\ D \in SUBSET S /\ IsFiniteSet(D) /\ DOMAIN net = S /\ DOMAIN force = D
  BY FS_Subset DEF Signals, Directed
<1>2. Net(S) = On(net, S) /\ Pull(D) = On(force, D)
  BY <1>1, SumIsOn DEF Net, Pull
<1>3. \A s \in S : s.dir \in -1 .. 1 /\ s.strength \in 0 .. 100
  BY DEF Signals, Signal
<1>4. \A s \in S : /\ h[s] \in Nat /\ net[s] \in Int /\ n[s] \in Int
                   /\ net[s] <= h[s] /\ n[s] <= net[s] /\ n[s] = k * h[s]
                   /\ -100 <= net[s] /\ net[s] <= 100
  <2> SUFFICES ASSUME NEW s \in S
               PROVE  /\ h[s] \in Nat /\ net[s] \in Int /\ n[s] \in Int
                      /\ net[s] <= h[s] /\ n[s] <= net[s] /\ n[s] = k * h[s]
                      /\ -100 <= net[s] /\ net[s] <= 100
    OBVIOUS
  <2>1. s.dir = -1 \/ s.dir = 0 \/ s.dir = 1
    BY <1>3
  <2> QED
    BY <1>0, <1>3, <2>1
<1>5. \A s \in D : h[s] = force[s] /\ h[s] \in Int
  BY <1>1, <1>4 DEF Directed
<1>6. \A s \in S \ D : h[s] = 0
  BY DEF Directed
<1> HIDE DEF D, net, force, h
<1>7. On(h, D) = On(h, S) /\ On(h, S) \in Nat
  BY <1>1, <1>4, <1>6, SumWithout
<1>8. On(h, D) = On(force, D)
  BY <1>1, <1>5, SumSame
<1>9. On(n, S) = k * On(h, S)
  <2>1. \A s \in S : h[s] \in Int
    BY <1>4
  <2> QED
    BY <1>1, <2>1, SumScaled
<1> HIDE DEF n
<1>10. On(net, S) \in Int /\ On(net, S) <= On(h, S)
  <2>1. \A s \in S : net[s] \in Int /\ h[s] \in Int /\ net[s] <= h[s]
    BY <1>4
  <2> QED
    BY <1>1, <2>1, SumOrder
<1>11. On(n, S) <= On(net, S)
  <2>1. \A s \in S : n[s] \in Int /\ net[s] \in Int /\ n[s] <= net[s]
    BY <1>4
  <2> QED
    BY <1>1, <2>1, SumOrder
<1>12. Cardinality(S) \in Nat /\ -100 * Cardinality(S) <= On(net, S) /\ On(net, S) <= 100 * Cardinality(S)
  <2>1. PICK lo \in Int, hi \in Int : lo = -100 /\ hi = 100
    OBVIOUS
  <2>2. \A s \in S : net[s] \in Int /\ lo <= net[s] /\ net[s] <= hi
    BY <1>4, <2>1
  <2>3. /\ Cardinality(S) \in Nat /\ On(net, S) \in Int
        /\ lo * Cardinality(S) <= On(net, S) /\ On(net, S) <= hi * Cardinality(S)
    BY <1>1, <2>2, SumWithin
  <2> QED
    BY <2>1, <2>3
<1>13. Net(S) = On(net, S) /\ Pull(Directed(S)) = On(h, S)
  BY <1>2, <1>7, <1>8 DEF D
<1> QED
  BY <1>0, <1>7, <1>9, <1>10, <1>11, <1>12, <1>13

LEMMA AgreementIsAShare ==
    ASSUME NEW S, Signals(S)
    PROVE  Agreement(S) \in 0 .. 100
<1> DEFINE force == Pull(Directed(S))
           net == Net(S)
<1>1. net \in Int /\ force \in Nat /\ -force <= net /\ net <= force
  BY NetWithinPull
<1>2. Size(net) \in 0 .. force
  BY <1>1 DEF Size
<1> HIDE DEF force, net
<1>3. force # 0 => (100 * Size(net)) \div force \in 0 .. 100
  <2> SUFFICES ASSUME force # 0 PROVE (100 * Size(net)) \div force \in 0 .. 100
    OBVIOUS
  <2>1. /\ force \in Nat \ {0} /\ 100 * Size(net) \in Int
        /\ 0 * force <= 100 * Size(net) /\ 100 * Size(net) <= 100 * force
    BY <1>1, <1>2
  <2> QED
    BY <2>1, DivisionWithin
<1> QED
  BY <1>3 DEF Agreement, force, net

\* The signals of a category score within a hundred either way.
LEMMA CategoryNetWithin ==
    ASSUME NEW S, Signals(S), NEW c, Of(S, c) # {}
    PROVE  CategoryNet(S, c) \in -10000 .. 10000
<1> DEFINE u == Of(S, c)
<1>1. Signals(u) /\ IsFiniteSet(u)
  BY SignalsTogether DEF Of, Signals
<1>2. Cardinality(u) \in Nat \ {0}
  BY <1>1, FS_EmptySet, FS_CardinalityType
<1>3. Net(u) \in Int /\ -100 * Cardinality(u) <= Net(u) /\ Net(u) <= 100 * Cardinality(u)
  BY <1>1, NetWithinPull
<1> HIDE DEF u
<1>4. PICK lo \in Int : lo = -10000
  OBVIOUS
<1>5. (100 * Net(u)) \div Cardinality(u) \in lo .. 10000
  <2>1. /\ 100 * Net(u) \in Int /\ lo * Cardinality(u) <= 100 * Net(u)
        /\ 100 * Net(u) <= 10000 * Cardinality(u)
    BY <1>2, <1>3, <1>4
  <2> QED
    BY <1>2, <2>1, DivisionWithin
<1>6. CategoryNet(S, c) = (100 * Net(u)) \div Cardinality(u)
  BY Zenon DEF CategoryNet, u
<1> DEFINE q == (100 * Net(u)) \div Cardinality(u)
<1>7. q \in lo .. 10000
  BY <1>5
<1> HIDE DEF q
<1>8. CategoryNet(S, c) = q
  BY <1>6 DEF q
<1> QED
  BY <1>4, <1>7, <1>8

\* Whatever the signals are, the formula stays within the contract.
LEMMA CompositeBounds ==
    ASSUME NEW S, Signals(S), NEW weights, Shares(weights)
    PROVE  /\ Composite(S, weights).score \in Scores
           /\ Composite(S, weights).agreement \in 0 .. 100
           /\ Composite(S, weights).breadth \in 0 .. 100
<1> DEFINE present == {c \in DOMAIN weights : Of(S, c) # {}}
           covered == {c \in DOMAIN weights : Of(Directed(S), c) # {}}
           wsum == SumFunctionOnSet(weights, present)
           fn == [c \in present |-> weights[c] * CategoryNet(S, c)]
           tilt == SumFunction(fn)
           sc == IF wsum = 0 THEN 5000 ELSE 5000 + tilt \div (2 * wsum)
           hi == [c \in present |-> 10000 * weights[c]]
<1>0. PICK k \in Int : k = -10000
  OBVIOUS
<1> DEFINE lo == [c \in present |-> k * weights[c]]
<1>1. /\ IsFiniteSet(DOMAIN weights) /\ \A c \in DOMAIN weights : weights[c] \in Nat
      /\ On(weights, DOMAIN weights) = 100
  <2>1. SumFunction(weights) = On(weights, DOMAIN weights)
    BY SumIsOn
  <2> QED
    BY <2>1 DEF Shares
<1>2. /\ present \in SUBSET DOMAIN weights /\ covered \in SUBSET DOMAIN weights
      /\ IsFiniteSet(present)
  BY <1>1, FS_Subset
<1>3. \A c \in present : CategoryNet(S, c) \in -10000 .. 10000 /\ weights[c] \in Nat
  BY <1>1, CategoryNetWithin
<1>4. DOMAIN fn = present
  OBVIOUS
<1>5. \A c \in present : fn[c] = weights[c] * CategoryNet(S, c)
  OBVIOUS
<1>6. \A w \in Nat, x \in -10000 .. 10000 : w * x \in Int /\ w * x <= 10000 * w /\ -10000 * w <= w * x
  OBVIOUS
<1>7. \A c \in present : /\ fn[c] \in Int /\ hi[c] \in Int /\ lo[c] \in Int
                         /\ lo[c] <= fn[c] /\ fn[c] <= hi[c]
                         /\ weights[c] \in Int
  <2>1. \A c \in present : hi[c] = 10000 * weights[c] /\ lo[c] = k * weights[c]
    OBVIOUS
  <2> HIDE DEF hi, lo, fn, present
  <2>2. ASSUME NEW c \in present
        PROVE  /\ fn[c] \in Int /\ hi[c] \in Int /\ lo[c] \in Int
               /\ lo[c] <= fn[c] /\ fn[c] <= hi[c]
               /\ weights[c] \in Int
    <3> DEFINE w == weights[c]
               x == CategoryNet(S, c)
    <3>1. w \in Nat /\ x \in -10000 .. 10000
      BY <1>3
    <3>2. fn[c] = w * x /\ hi[c] = 10000 * w /\ lo[c] = k * w
      BY <1>5, <2>1
    <3> HIDE DEF w, x
    <3>3. w * x \in Int /\ w * x <= 10000 * w /\ k * w <= w * x
      BY <1>0, <1>6, <3>1
    <3>4. 10000 * w \in Int /\ k * w \in Int /\ w \in Int
      BY <3>1
    <3> QED
      BY <3>2, <3>3, <3>4 DEF w
  <2> QED
    BY <2>2
<1> HIDE DEF present, covered, fn
<1>8. On(weights, present) \in Nat /\ On(weights, covered) \in Nat /\ On(weights, covered) <= 100
  BY <1>1, <1>2, SumWithout
<1>9. /\ On(hi, present) = 10000 * On(weights, present)
      /\ On(lo, present) = k * On(weights, present)
  <2>1. \A c \in present : weights[c] \in Int
    BY <1>7
  <2> QED
    BY <1>2, <2>1, SumScaled
<1> HIDE DEF hi, lo
<1>10. On(fn, present) \in Int /\ On(fn, present) <= On(hi, present)
  BY <1>2, <1>7, SumOrder
<1>11. On(lo, present) <= On(fn, present)
  BY <1>2, <1>7, SumOrder
<1>12. wsum = On(weights, present) /\ tilt = On(fn, present)
  BY <1>4, SumIsOn DEF On
<1> HIDE DEF wsum, tilt, sc
<1>13. wsum \in Nat /\ tilt \in Int /\ -10000 * wsum <= tilt /\ tilt <= 10000 * wsum
  BY <1>0, <1>8, <1>9, <1>10, <1>11, <1>12
<1>14. wsum # 0 => tilt \div (2 * wsum) \in -5000 .. 5000
  <2> SUFFICES ASSUME wsum # 0 PROVE tilt \div (2 * wsum) \in -5000 .. 5000
    OBVIOUS
  <2>1. PICK low \in Int : low = -5000
    OBVIOUS
  <2>2. PICK w \in Nat \ {0} : w = 2 * wsum
    BY <1>13
  <2>3. low * w <= tilt /\ tilt <= 5000 * w
    BY <1>13, <2>1, <2>2
  <2>4. tilt \div w \in low .. 5000
    BY <1>13, <2>3, DivisionWithin
  <2> QED
    BY <2>1, <2>2, <2>4
<1>15. SumFunctionOnSet(weights, covered) \in 0 .. 100
  BY <1>8 DEF On
<1>16. Composite(S, weights) =
          [score |-> sc, tilt |-> tilt,
           agreement |-> Agreement(S), breadth |-> SumFunctionOnSet(weights, covered)]
  BY Zenon DEF Composite, sc, wsum, tilt, fn, present, covered
<1>17. sc \in Scores
  <2>1. CASE wsum = 0
    BY <2>1 DEF sc, Scores
  <2>2. CASE wsum # 0
    <3> DEFINE q == tilt \div (2 * wsum)
    <3>1. q \in -5000 .. 5000
      BY <1>14, <2>2
    <3>2. sc = 5000 + q
      BY <2>2 DEF sc
    <3> HIDE DEF q
    <3> QED
      BY <3>1, <3>2 DEF Scores
  <2> QED
    BY <2>1, <2>2
<1>18. Agreement(S) \in 0 .. 100
  BY AgreementIsAShare
<1> QED
  BY <1>15, <1>16, <1>17, <1>18

LEMMA OkIsOk ==
    ASSUME NEW score \in Scores, NEW confidence \in 0 .. 100
    PROVE  Ok(score, confidence) = [status |-> "ok", score |-> score, confidence |-> confidence]
BY DEF Ok, Contract, Scores

\* What each agent reads, field by field.
LEMMA RiskFacts ==
    ASSUME NEW m, Typed("risk", m)
    PROVE  /\ m.sessions \in Nat /\ m.usable \in BOOLEAN /\ m.quality \in 0 .. 100
           /\ m.volatility \in Nat /\ m.recent \in Maybe(Nat) /\ m.drawdown \in Nat
           /\ m.beta \in Maybe(Int) /\ m.sharpe \in Maybe(Int) /\ m.adtv \in Maybe(Int)
<1> DEFINE T == FactTypes["risk"]
<1>1. T = [sessions |-> Nat, usable |-> BOOLEAN, quality |-> 0 .. 100, volatility |-> Nat,
           recent |-> Maybe(Nat), drawdown |-> Nat, beta |-> Maybe(Int),
           sharpe |-> Maybe(Int), adtv |-> Maybe(Int)]
  BY DEF FactTypes
<1> HIDE DEF T
<1>2. DOMAIN m = DOMAIN T /\ \A f \in DOMAIN m : m[f] \in T[f]
  BY DEF Typed, T
<1>3. DOMAIN T = {"sessions", "usable", "quality", "volatility", "recent", "drawdown", "beta",
                 "sharpe", "adtv"}
  BY <1>1
<1> QED
  BY <1>1, <1>2, <1>3

LEMMA TechnicalFacts ==
    ASSUME NEW m, Typed("technical", m)
    PROVE  /\ m.bars \in Nat /\ m.usable \in BOOLEAN /\ m.quality \in 0 .. 100
           /\ m.fresh \in BOOLEAN /\ m.gap \in Maybe(Int) /\ m.alignment \in Maybe(Int)
           /\ m.cross \in Maybe(Int) /\ m.adx \in Maybe(Int) /\ m.di \in Int
           /\ m.macd \in Maybe(Int) /\ m.macdCross \in Maybe(Int)
           /\ m.rsi \in Maybe(Int) /\ m.roc \in Maybe(Int) /\ m.percentB \in Maybe(Int)
           /\ m.highDivergence \in BOOLEAN /\ m.lowDivergence \in BOOLEAN
           /\ m.range \in Maybe(Int) /\ m.volume \in Int /\ m.squeeze \in BOOLEAN
           /\ m.expansion \in Int /\ m.month \in Int /\ m.balance \in Int /\ m.close \in Int
           /\ m.support \in Maybe(Int) /\ m.resistance \in Maybe(Int)
           /\ m.average \in Maybe(Int) /\ m.atr \in Maybe(Int)
<1> DEFINE T == FactTypes["technical"]
<1>1. T = [bars |-> Nat, usable |-> BOOLEAN, quality |-> 0 .. 100, fresh |-> BOOLEAN,
           gap |-> Maybe(Int), alignment |-> Maybe(Int), cross |-> Maybe(Int),
           adx |-> Maybe(Int), di |-> Int, macd |-> Maybe(Int),
           macdCross |-> Maybe(Int), rsi |-> Maybe(Int), roc |-> Maybe(Int),
           percentB |-> Maybe(Int), highDivergence |-> BOOLEAN, lowDivergence |-> BOOLEAN,
           range |-> Maybe(Int), volume |-> Int, squeeze |-> BOOLEAN, expansion |-> Int,
           month |-> Int, balance |-> Int, close |-> Int, support |-> Maybe(Int),
           resistance |-> Maybe(Int), average |-> Maybe(Int), atr |-> Maybe(Int)]
  BY DEF FactTypes
<1> HIDE DEF T
<1>2. DOMAIN m = DOMAIN T /\ \A f \in DOMAIN m : m[f] \in T[f]
  BY DEF Typed, T
<1>3. DOMAIN T = {"bars", "usable", "quality", "fresh", "gap", "alignment", "cross", "adx",
                 "di", "macd", "macdCross", "rsi", "roc", "percentB", "highDivergence",
                 "lowDivergence", "range", "volume", "squeeze", "expansion", "month",
                 "balance", "close", "support", "resistance", "average", "atr"}
  BY <1>1
<1> QED
  BY <1>1, <1>2, <1>3

LEMMA FundamentalFacts ==
    ASSUME NEW m, Typed("fundamental", m)
    PROVE  /\ m.periods \in Nat /\ m.licensed \in BOOLEAN /\ m.lender \in BOOLEAN
           /\ m.growth \in Maybe(Int) /\ m.before \in Maybe(Int) /\ m.eps \in Maybe(Int)
           /\ m.margin \in Maybe(Int) /\ m.marginBefore \in Maybe(Int)
           /\ m.roe \in Maybe(Int) /\ m.roce \in Maybe(Int) /\ m.debt \in Maybe(Int)
           /\ m.coverage \in Maybe(Int) /\ m.conversion \in Maybe(Int)
           /\ m.operating \in Maybe(Int) /\ m.pe \in Maybe(Positive)
           /\ m.peerPe \in Maybe(Positive)
<1> DEFINE T == FactTypes["fundamental"]
<1>1. T = [periods |-> Nat, licensed |-> BOOLEAN, lender |-> BOOLEAN, growth |-> Maybe(Int),
           before |-> Maybe(Int), eps |-> Maybe(Int), margin |-> Maybe(Int),
           marginBefore |-> Maybe(Int), roe |-> Maybe(Int), roce |-> Maybe(Int),
           debt |-> Maybe(Int), coverage |-> Maybe(Int), conversion |-> Maybe(Int),
           operating |-> Maybe(Int), pe |-> Maybe(Positive),
           peerPe |-> Maybe(Positive)]
  BY DEF FactTypes
<1> HIDE DEF T
<1>2. DOMAIN m = DOMAIN T /\ \A f \in DOMAIN m : m[f] \in T[f]
  BY DEF Typed, T
<1>3. DOMAIN T = {"periods", "licensed", "lender", "growth", "before", "eps", "margin",
                 "marginBefore", "roe", "roce", "debt", "coverage", "conversion", "operating",
                 "pe", "peerPe"}
  BY <1>1
<1> QED
  BY <1>1, <1>2, <1>3

LEMMA ValuationFacts ==
    ASSUME NEW m, Typed("valuation", m)
    PROVE  /\ m.periods \in Nat /\ m.price \in Maybe(Positive) /\ m.lender \in BOOLEAN
           /\ m.complete \in BOOLEAN /\ m.revenues \in Seq(Int) /\ m.margins \in Seq(Int)
           /\ m.debt \in Nat /\ m.cash \in Nat /\ m.shares \in Nat /\ m.beta \in Maybe(Int)
           /\ m.interest \in Nat /\ m.tax \in 0 .. 100
           /\ m.peers \in [{"pe", "pb"} -> Maybe(Int)]
<1> DEFINE T == FactTypes["valuation"]
           P == [{"pe", "pb"} -> Maybe(Int)]
<1>1. T = [periods |-> Nat, price |-> Maybe(Positive), lender |-> BOOLEAN,
           complete |-> BOOLEAN, revenues |-> Seq(Int), margins |-> Seq(Int), debt |-> Nat,
           cash |-> Nat, shares |-> Nat, beta |-> Maybe(Int), interest |-> Nat,
           tax |-> 0 .. 100, peers |-> P]
  BY DEF FactTypes
<1> HIDE DEF T, P
<1>2. DOMAIN m = DOMAIN T /\ \A f \in DOMAIN m : m[f] \in T[f]
  BY DEF Typed, T
<1>3. DOMAIN T = {"periods", "price", "lender", "complete", "revenues", "margins", "debt",
                 "cash", "shares", "beta", "interest", "tax", "peers"}
  BY <1>1
<1>4. \A f \in DOMAIN T : m[f] \in T[f]
  BY <1>2
<1>5. m.peers \in P
  BY <1>1, <1>3, <1>4
<1>6. m.revenues \in Seq(Int) /\ m.margins \in Seq(Int)
  BY <1>1, <1>3, <1>4
<1> QED
  BY <1>1, <1>3, <1>4, <1>5, <1>6 DEF P

LEMMA NewsFacts ==
    ASSUME NEW m, Typed("news", m)
    PROVE  /\ m.installed \in BOOLEAN
           /\ m.items \in {S \in SUBSET Headlines : IsFiniteSet(S)}
<1> DEFINE T == FactTypes["news"]
<1>1. T = [installed |-> BOOLEAN, items |-> {S \in SUBSET Headlines : IsFiniteSet(S)}]
  BY DEF FactTypes
<1> HIDE DEF T
<1>2. DOMAIN m = DOMAIN T /\ \A f \in DOMAIN m : m[f] \in T[f]
  BY DEF Typed, T
<1>3. DOMAIN T = {"installed", "items"}
  BY <1>1
<1> QED
  BY <1>1, <1>2, <1>3

LEMMA MacroFacts ==
    ASSUME NEW m, Typed("macro", m)
    PROVE  /\ m.sector \in DOMAIN Rules.macro.sensitivities /\ m.regime \in STRING
           /\ m.change \in [Changed -> Maybe(Int)]
<1> DEFINE T == FactTypes["macro"]
<1>1. T = [sector |-> DOMAIN Rules.macro.sensitivities, regime |-> STRING,
           change |-> [Changed -> Maybe(Int)]]
  BY DEF FactTypes
<1> HIDE DEF T
<1>2. DOMAIN m = DOMAIN T /\ \A f \in DOMAIN m : m[f] \in T[f]
  BY DEF Typed, T
<1>3. DOMAIN T = {"sector", "regime", "change"}
  BY <1>1
<1> QED
  BY <1>1, <1>2, <1>3

LEMMA PortfolioFacts ==
    ASSUME NEW m, Typed("portfolio", m)
    PROVE  /\ m.price \in Maybe(Nat) /\ m.correlation \in Maybe(Int)
           /\ m.volatility \in Maybe(Int) /\ m.room \in Maybe(Int)
           /\ m.limits \in [Limits -> [before : Verdicts, after : Verdicts, offends : BOOLEAN]]
<1> DEFINE T == FactTypes["portfolio"]
<1>1. T = [price |-> Maybe(Nat), correlation |-> Maybe(Int), volatility |-> Maybe(Int),
           room |-> Maybe(Int),
           limits |-> [Limits -> [before : Verdicts, after : Verdicts, offends : BOOLEAN]]]
  BY DEF FactTypes
<1> HIDE DEF T
<1>2. DOMAIN m = DOMAIN T /\ \A f \in DOMAIN m : m[f] \in T[f]
  BY DEF Typed, T
<1>3. DOMAIN T = {"price", "correlation", "volatility", "room", "limits"}
  BY <1>1
<1> QED
  BY <1>1, <1>2, <1>3

\* The signals of each agent.

LEMMA QuotientIsInt == \A x \in Int, n \in Nat \ {0} : x \div n \in Int
OBVIOUS

LEMMA SizeIsNat == \A x \in Int : Size(x) \in Nat
BY DEF Size

\* A fact that is known is of its type.
LEMMA KnownFacts ==
    \A T, x : x \in Maybe(T) /\ Known(x) => x \in T
BY DEF Maybe, Known

LEMMA SigsAreSignals ==
    \A name, category : \A value \in Int, strength \in Int :
       Signals({Sig(name, category, value, strength)})
BY SigIsSignal

LEMMA ThresholdSums ==
    ASSUME NEW r, RiskAnalysisRules(r)
    PROVE  /\ r.lowVolatility \in Nat \ {0} /\ r.highVolatility \in Nat
           /\ (r.lowVolatility + r.highVolatility) \div 2 \in Int
           /\ (r.highVolatility - r.lowVolatility) \div 2 \in Nat \ {0}
           /\ r.drawdownWarning \div 2 \in Nat \ {0}
           /\ r.lowBeta \in Int /\ r.highBeta \in Int /\ Shares(r.weights)
           /\ r.minHistory \in Nat
<1>1. /\ r.lowVolatility \in 1 .. 199 /\ r.highVolatility \in r.lowVolatility + 2 .. 299
      /\ r.lowBeta \in 0 .. 499 /\ r.highBeta \in r.lowBeta + 1 .. 499
      /\ r.drawdownWarning \in 2 .. 99 /\ r.minHistory \in Nat
      /\ Shares(r.weights)
  BY DEF RiskAnalysisRules, Positive
<1>2. \A x \in Int : x >= 2 => x \div 2 \in Nat \ {0}
  OBVIOUS
<1>3. r.highVolatility - r.lowVolatility >= 2 /\ r.lowVolatility + r.highVolatility >= 2
  BY <1>1
<1>4. r.highVolatility - r.lowVolatility \in Int /\ r.lowVolatility + r.highVolatility \in Int
  BY <1>1
<1>5. /\ (r.lowVolatility + r.highVolatility) \div 2 \in Nat \ {0}
      /\ (r.highVolatility - r.lowVolatility) \div 2 \in Nat \ {0}
  BY <1>2, <1>3, <1>4
<1>6. r.drawdownWarning \div 2 \in Nat \ {0}
  BY <1>1, <1>2
<1> QED
  BY <1>1, <1>5, <1>6

LEMMA VolatilitySignalsAreSignals ==
    ASSUME RiskAnalysisRules(Rules.risk), NEW m, Typed("risk", m)
    PROVE  Signals(VolatilitySignals(m))
<1> DEFINE r == Rules.risk
           mid == (r.lowVolatility + r.highVolatility) \div 2
           half == (r.highVolatility - r.lowVolatility) \div 2
           ratio == (100 * m.recent) \div m.volatility
           level == {Sig("volatility_level", "volatility", mid - m.volatility,
                           (100 * Size(m.volatility - mid)) \div half)}
           shift == {Sig("volatility_shift", "volatility", 100 - ratio, Size(ratio - 100))}
           moved == Known(m.recent) /\ m.volatility > 0 /\ (ratio >= 150 \/ ratio <= 67)
<1>1. mid \in Int /\ half \in Nat \ {0} /\ m.volatility \in Nat /\ m.recent \in Maybe(Nat)
  BY ThresholdSums, RiskFacts
<1>2. VolatilitySignals(m) = level \cup When(moved, shift)
  BY DEF VolatilitySignals
<1> HIDE DEF mid, half
<1>3. Signals(level)
  <2>1. m.volatility - mid \in Int /\ mid - m.volatility \in Int
    BY <1>1
  <2>2. 100 * Size(m.volatility - mid) \in Int
    BY <2>1, SizeIsNat
  <2>3. (100 * Size(m.volatility - mid)) \div half \in Int
    BY <1>1, <2>2, QuotientIsInt
  <2> QED
    BY <2>1, <2>3, SigIsSignal
<1>4. moved => Signals(shift)
  <2> SUFFICES ASSUME moved PROVE Signals(shift)
    OBVIOUS
  <2>1. m.recent \in Nat /\ m.volatility \in Nat \ {0}
    BY <1>1, KnownFacts
  <2>2. 100 * m.recent \in Int
    BY <2>1
  <2>3. ratio \in Int
    BY <2>1, <2>2, QuotientIsInt
  <2> HIDE DEF ratio
  <2>4. 100 - ratio \in Int /\ Size(ratio - 100) \in Int
    BY <2>3, SizeIsNat
  <2> QED
    BY <2>4, SigIsSignal
<1> HIDE DEF level, shift, moved
<1>5. Signals(When(moved, shift))
  BY <1>4, WhenSignals
<1> QED
  BY <1>2, <1>3, <1>5, SignalsTogether

LEMMA RiskSignalsAreSignals ==
    ASSUME RiskAnalysisRules(Rules.risk), NEW m, Typed("risk", m)
    PROVE  Signals(RiskSignals(m))
<1> DEFINE r == Rules.risk
           target == r.drawdownWarning \div 2
<1>1. /\ r.lowBeta \in Int /\ r.highBeta \in Int /\ target \in Nat \ {0}
      /\ m.drawdown \in Nat /\ m.beta \in Maybe(Int) /\ m.sharpe \in Maybe(Int)
      /\ m.adtv \in Maybe(Int)
  BY ThresholdSums, RiskFacts
<1>2. Signals(DrawdownSignals(m))
  <2>1. DrawdownSignals(m) = {Sig("max_drawdown", "drawdown", target - m.drawdown,
                                      (100 * Size(m.drawdown - target)) \div target)}
    BY DEF DrawdownSignals
  <2> HIDE DEF target
  <2>2. m.drawdown - target \in Int /\ target - m.drawdown \in Int
    BY <1>1
  <2>3. 100 * Size(m.drawdown - target) \in Int
    BY <2>2, SizeIsNat
  <2>4. (100 * Size(m.drawdown - target)) \div target \in Int
    BY <1>1, <2>3, QuotientIsInt
  <2> QED
    BY <2>1, <2>2, <2>4, SigIsSignal
<1> HIDE DEF r
<1>3. Signals(BetaSignals(m))
  <2> DEFINE b == IF m.beta > r.highBeta THEN Sig("beta", "market", -1, 40 + m.beta - r.highBeta)
                  ELSE IF m.beta < r.lowBeta THEN Sig("beta", "market", 1, 30 + r.lowBeta - m.beta)
                  ELSE Sig("beta", "market", 0, 0)
  <2>1. BetaSignals(m) = When(Known(m.beta), {b})
    BY DEF BetaSignals, r
  <2>2. ASSUME Known(m.beta) PROVE Signals({b})
    <3>1. m.beta \in Int
      BY <1>1, <2>2, KnownFacts
    <3>2. 40 + m.beta - r.highBeta \in Int /\ 30 + r.lowBeta - m.beta \in Int /\ -1 \in Int
      BY <1>1, <3>1
    <3>3. /\ Signals({Sig("beta", "market", -1, 40 + m.beta - r.highBeta)})
          /\ Signals({Sig("beta", "market", 1, 30 + r.lowBeta - m.beta)})
          /\ Signals({Sig("beta", "market", 0, 0)})
      BY <3>2, SigsAreSignals
    <3> QED
      BY <3>3
  <2> HIDE DEF b
  <2> QED
    BY <2>1, <2>2, WhenSignals
<1>4. Signals(SharpeSignals(m))
  <2> DEFINE s == {Sig("sharpe", "return_quality", m.sharpe - 50, Size(m.sharpe - 50))}
  <2>1. SharpeSignals(m) = When(Known(m.sharpe), s)
    BY DEF SharpeSignals
  <2>2. ASSUME Known(m.sharpe) PROVE Signals(s)
    <3>1. m.sharpe - 50 \in Int
      BY <1>1, <2>2, KnownFacts
    <3>2. Size(m.sharpe - 50) \in Int
      BY <3>1, SizeIsNat
    <3> QED
      BY <3>1, <3>2, SigIsSignal
  <2> HIDE DEF s
  <2> QED
    BY <2>1, <2>2, WhenSignals
<1>5. Signals(LiquiditySignals(m))
  <2> DEFINE s == IF m.adtv < 0 THEN Sig("liquidity", "liquidity", -1, 100)
                  ELSE Sig("liquidity", "liquidity", 1, m.adtv)
  <2>1. LiquiditySignals(m) = When(Known(m.adtv), {s})
    BY DEF LiquiditySignals
  <2>2. ASSUME Known(m.adtv) PROVE Signals({s})
    <3>1. m.adtv \in Int /\ -1 \in Int
      BY <1>1, <2>2, KnownFacts
    <3>2. /\ Signals({Sig("liquidity", "liquidity", -1, 100)})
          /\ Signals({Sig("liquidity", "liquidity", 1, m.adtv)})
      BY <3>1, SigsAreSignals
    <3> QED
      BY <3>2
  <2> HIDE DEF s
  <2> QED
    BY <2>1, <2>2, WhenSignals
<1> QED
  BY <1>2, <1>3, <1>4, <1>5, VolatilitySignalsAreSignals, SignalsTogether DEF RiskSignals

\* The confidence of a scored output.
Share3(a, b, c) == (a * b * c) \div 10000
Share2(a, b) == (a * b) \div 100

LEMMA ShareOfShares ==
    ASSUME NEW a \in 0 .. 100, NEW b \in 0 .. 100, NEW c \in 0 .. 100
    PROVE  Share3(a, b, c) \in 0 .. 100 /\ Share2(a, b) \in 0 .. 100
<1> DEFINE ab == a * b
           abc == ab * c
<1>1. ab \in Nat /\ ab <= 10000
  BY SMTT(30)
<1> HIDE DEF ab
<1>2. abc \in Nat /\ abc <= 1000000
  BY <1>1, SMTT(30)
<1> HIDE DEF abc
<1>3. abc \div 10000 \in 0 .. 100 /\ ab \div 100 \in 0 .. 100
  BY <1>1, <1>2
<1> QED
  BY <1>3, Zenon DEF Share3, Share2, ab, abc

LEMMA NothingFailed ==
    /\ NotOk("insufficient_data").status # "failed"
    /\ NotOk("data_unusable").status # "failed"
    /\ NotOk("not_active").status # "failed"
    /\ \A score \in Scores, confidence \in 0 .. 100 :
          Ok(score, confidence).status # "failed"
<1>1. \A score \in Scores, confidence \in 0 .. 100 :
         Ok(score, confidence) = [status |-> "ok", score |-> score, confidence |-> confidence]
  BY OkIsOk
<1> QED
  BY <1>1 DEF NotOk

LEMMA RiskNeverFails ==
    ASSUME RiskAnalysisRules(Rules.risk), NEW m, Typed("risk", m)
    PROVE  Risk(m).status # "failed"
<1> DEFINE c == Composite(RiskSignals(m), Rules.risk.weights)
           sure == Share3(c.agreement, c.breadth, m.quality)
<1>1. c.score \in Scores /\ c.agreement \in 0 .. 100 /\ c.breadth \in 0 .. 100
  BY RiskSignalsAreSignals, ThresholdSums, CompositeBounds
<1>2. Risk(m) \in {NotOk("insufficient_data"), NotOk("data_unusable"), Ok(c.score, sure)}
  BY DEF Risk, Share3
<1> HIDE DEF c
<1>3. sure \in 0 .. 100
  <2>1. m.quality \in 0 .. 100
    BY RiskFacts
  <2> QED
    BY <1>1, <2>1, ShareOfShares
<1> HIDE DEF sure
<1> QED
  BY <1>1, <1>2, <1>3, NothingFailed

\* A signal that depends on a condition.
LEMMA WhenSig ==
    ASSUME NEW p, NEW name, NEW category, NEW value, NEW strength,
           p => value \in Int /\ strength \in Int
    PROVE  Signals(When(p, {Sig(name, category, value, strength)}))
BY SigIsSignal, WhenSignals

LEMMA TrendSignalsAreSignals ==
    ASSUME TechnicalRules(Rules.technical), NEW t, Typed("technical", t)
    PROVE  Signals(TrendSignals(t))
<1>1. /\ Known(t.gap) => t.gap \in Int
      /\ Known(t.alignment) => t.alignment \in Int
      /\ Known(t.cross) => t.cross \in Int
      /\ Known(t.adx) => t.adx \in Int
      /\ t.di \in Int
  BY TechnicalFacts, KnownFacts
<1> DEFINE price == {Sig("price_vs_sma_long", "trend", t.gap, 10 * Size(t.gap))}
           cross == Sig("cross", "trend", t.cross, 80)
           order == Sig("sma_alignment", "trend", t.alignment, 50)
           strong == Sig("strong_trend", "trend", IF t.di > 0 THEN 1 ELSE -1, 2 * t.adx)
           weak == Sig("weak_trend", "trend", 0, 30)
           both == Known(t.gap) /\ Known(t.alignment)
           means == {IF Known(t.cross) THEN cross ELSE order}
           adx == {IF t.adx >= Rules.technical.adxTrend THEN strong ELSE weak}
<1>2. Signals(When(Known(t.gap), price))
  <2>1. Known(t.gap) => t.gap \in Int /\ 10 * Size(t.gap) \in Int
    BY <1>1, SizeIsNat
  <2> QED
    BY <2>1, WhenSig
<1>3. ASSUME both PROVE Signals(means)
  <2>1. Known(t.cross) => Signals({cross})
    BY <1>1, SigIsSignal
  <2>2. Signals({order})
    BY <1>1, <1>3, SigIsSignal
  <2> HIDE DEF cross, order
  <2> QED
    BY <2>1, <2>2
<1>4. ASSUME Known(t.adx) PROVE Signals(adx)
  <2>1. Signals({strong})
    <3>1. (IF t.di > 0 THEN 1 ELSE -1) \in Int /\ 2 * t.adx \in Int
      BY <1>1, <1>4
    <3> QED
      BY <3>1, SigIsSignal
  <2>2. Signals({weak})
    BY SigIsSignal
  <2> HIDE DEF strong, weak
  <2> QED
    BY <2>1, <2>2
<1>5. TrendSignals(t) = When(Known(t.gap), price) \cup When(both, means)
                          \cup When(Known(t.adx), adx)
  BY DEF TrendSignals
<1> HIDE DEF price, both, means, adx
<1>6. Signals(When(both, means)) /\ Signals(When(Known(t.adx), adx))
  BY <1>3, <1>4, WhenSignals
<1> QED
  BY <1>2, <1>5, <1>6, SignalsTogether

LEMMA MomentumSignalsAreSignals ==
    ASSUME TechnicalRules(Rules.technical), NEW t, Typed("technical", t)
    PROVE  Signals(MomentumSignals(t))
<1>1. /\ Known(t.macd) => t.macd \in Int
      /\ Known(t.macdCross) => t.macdCross \in Int
      /\ Known(t.rsi) => t.rsi \in Int
      /\ Known(t.roc) => t.roc \in Int
  BY TechnicalFacts, KnownFacts
<1> DEFINE crossed == Sig("macd_cross", "momentum", t.macdCross, 70)
           placed == Sig("macd_position", "momentum", t.macd, 40)
           macd == {IF Known(t.macdCross) THEN crossed ELSE placed}
           rsi == When(Known(t.rsi), {Sig("rsi_level", "momentum", t.rsi - 50, 2 * Size(t.rsi - 50))})
           roc == When(Known(t.roc), {Sig("return", "momentum", t.roc, 5 * Size(t.roc))})
           high == When(t.highDivergence, {Sig("bearish_divergence", "momentum", -1, 60)})
           low == When(t.lowDivergence, {Sig("bullish_divergence", "momentum", 1, 60)})
<1>2. MomentumSignals(t) = When(Known(t.macd), macd) \cup rsi \cup roc \cup high \cup low
  BY DEF MomentumSignals
<1>3. ASSUME Known(t.macd) PROVE Signals(macd)
  <2>1. Known(t.macdCross) => Signals({crossed})
    BY <1>1, SigIsSignal
  <2>2. Signals({placed})
    BY <1>1, <1>3, SigIsSignal
  <2> HIDE DEF crossed, placed
  <2> QED
    BY <2>1, <2>2
<1>4. Signals(rsi)
  <2>1. Known(t.rsi) => t.rsi - 50 \in Int /\ 2 * Size(t.rsi - 50) \in Int
    BY <1>1, SizeIsNat
  <2> QED
    BY <2>1, WhenSig
<1>5. Signals(roc)
  <2>1. Known(t.roc) => t.roc \in Int /\ 5 * Size(t.roc) \in Int
    BY <1>1, SizeIsNat
  <2> QED
    BY <2>1, WhenSig
<1>6. Signals(high) /\ Signals(low)
  <2>1. -1 \in Int /\ 1 \in Int /\ 60 \in Int
    OBVIOUS
  <2> QED
    BY <2>1, WhenSig
<1> HIDE DEF macd, rsi, roc, high, low
<1>7. Signals(When(Known(t.macd), macd))
  BY <1>3, WhenSignals
<1> QED
  BY <1>2, <1>4, <1>5, <1>6, <1>7, SignalsTogether

LEMMA ReversionSignalsAreSignals ==
    ASSUME TechnicalRules(Rules.technical), NEW t, Typed("technical", t)
    PROVE  Signals(ReversionSignals(t))
<1>1. (Known(t.rsi) => t.rsi \in Int) /\ (Known(t.percentB) => t.percentB \in Int)
  BY TechnicalFacts, KnownFacts
<1> DEFINE high == Rules.technical.overbought
           low == Rules.technical.oversold
           dear == Known(t.rsi) /\ t.rsi >= high
           cheap == Known(t.rsi) /\ t.rsi <= low
           far == Known(t.percentB) /\ (t.percentB > 100 \/ t.percentB < 0)
           s1 == When(dear, {Sig("rsi_overbought", "mean_reversion", -1,
                                     (50 * (t.rsi - high)) \div (100 - high) + 50)})
           s2 == When(cheap, {Sig("rsi_oversold", "mean_reversion", 1,
                                      (50 * (low - t.rsi)) \div low + 50)})
           s3 == When(far, {Sig("bollinger_extreme", "mean_reversion", 50 - t.percentB, 50)})
<1>2. high \in 51 .. 99 /\ low \in 1 .. 49
  BY DEF TechnicalRules
<1>3. ReversionSignals(t) = s1 \cup s2 \cup s3
  BY DEF ReversionSignals
<1> HIDE DEF high, low
<1>4. Signals(s1)
  <2>1. dear => -1 \in Int /\ 50 * (t.rsi - high) \in Int /\ 100 - high \in Nat \ {0}
    BY <1>1, <1>2
  <2>2. dear => (50 * (t.rsi - high)) \div (100 - high) \in Int
    BY <2>1, QuotientIsInt
  <2>3. dear => -1 \in Int /\ (50 * (t.rsi - high)) \div (100 - high) + 50 \in Int
    <3> DEFINE q == (50 * (t.rsi - high)) \div (100 - high)
    <3> HIDE DEF q
    <3>1. q \in Int => q + 50 \in Int
      OBVIOUS
    <3> QED
      BY <2>1, <2>2, <3>1 DEF q
  <2> HIDE DEF dear
  <2> QED
    BY <2>3, WhenSig
<1>5. Signals(s2)
  <2>1. cheap => 50 * (low - t.rsi) \in Int /\ low \in Nat \ {0}
    BY <1>1, <1>2
  <2>2. cheap => (50 * (low - t.rsi)) \div low \in Int
    BY <2>1, QuotientIsInt
  <2>3. cheap => 1 \in Int /\ (50 * (low - t.rsi)) \div low + 50 \in Int
    <3> DEFINE q == (50 * (low - t.rsi)) \div low
    <3> HIDE DEF q
    <3>1. q \in Int => q + 50 \in Int
      OBVIOUS
    <3> QED
      BY <2>2, <3>1 DEF q
  <2> HIDE DEF cheap
  <2> QED
    BY <2>3, WhenSig
<1>6. Signals(s3)
  <2>1. far => 50 - t.percentB \in Int /\ 50 \in Int
    BY <1>1
  <2> HIDE DEF far
  <2> QED
    BY <2>1, WhenSig
<1> HIDE DEF s1, s2, s3
<1> QED
  BY <1>3, <1>4, <1>5, <1>6, SignalsTogether

LEMMA BreakoutAndVolumeSignalsAreSignals ==
    ASSUME TechnicalRules(Rules.technical), NEW t, Typed("technical", t)
    PROVE  Signals(BreakoutSignals(t)) /\ Signals(VolumeSignals(t))
<1>1. /\ Known(t.range) => t.range \in Int
      /\ t.volume \in Int /\ t.expansion \in Int /\ t.month \in Int /\ t.balance \in Int
  BY TechnicalFacts, KnownFacts
<1> DEFINE loud == IF t.volume >= Rules.technical.breakoutVolume THEN 90 ELSE 50
           month == IF t.month > 0 THEN 1 ELSE -1
           balance == IF t.balance > 0 THEN 1 ELSE -1
           apart == (t.balance > 0) # (t.month > 0) /\ Size(t.month) > 2
           s1 == When(Known(t.range), {Sig("breakout", "breakout", t.range, loud)})
           s2 == When(t.squeeze, {Sig("bollinger_squeeze", "breakout", 0, 50)})
           s3 == When(t.expansion >= 120, {Sig("volume_expansion", "volume", month, t.expansion - 100)})
           s4 == When(apart, {Sig("obv_divergence", "volume", balance, 40)})
<1>2. BreakoutSignals(t) = s1 \cup s2 /\ VolumeSignals(t) = s3 \cup s4
  BY DEF BreakoutSignals, VolumeSignals
<1>3. loud \in Int /\ month \in Int /\ balance \in Int /\ t.expansion - 100 \in Int
  BY <1>1
<1> HIDE DEF loud, month, balance, apart
<1>4. Signals(s1) /\ Signals(s2)
  BY <1>1, <1>3, WhenSig
<1>5. Signals(s3) /\ Signals(s4)
  BY <1>3, WhenSig
<1> HIDE DEF s1, s2, s3, s4
<1> QED
  BY <1>2, <1>4, <1>5, SignalsTogether

\* The technical agent fails only over a level that is printed onto the close.
LEMMA TechnicalSeldomFails ==
    ASSUME TechnicalRules(Rules.technical), NEW t, Typed("technical", t),
           Technical(t).status = "failed"
    PROVE  /\ t.bars >= Rules.technical.minHistory
           /\ ~LevelsHold(t, Composite(TechnicalSignals(t), Rules.technical.weights).tilt)
<1> DEFINE c == Composite(TechnicalSignals(t), Rules.technical.weights)
           sure == Share3(c.agreement, c.breadth, t.quality)
           half == sure \div 2
           confidence == IF t.fresh THEN sure ELSE half
<1>1. Signals(TechnicalSignals(t))
  BY TrendSignalsAreSignals, MomentumSignalsAreSignals, ReversionSignalsAreSignals,
     BreakoutAndVolumeSignalsAreSignals, SignalsTogether DEF TechnicalSignals
<1>2. Shares(Rules.technical.weights) /\ Rules.technical.minHistory \in Nat
  BY DEF TechnicalRules, Positive
<1>3. c.score \in Scores /\ c.agreement \in 0 .. 100 /\ c.breadth \in 0 .. 100
  BY <1>1, <1>2, CompositeBounds
<1>4. t.quality \in 0 .. 100 /\ t.bars \in Nat
  BY TechnicalFacts
<1>5. Technical(t) = IF t.bars = 0 THEN NotOk("insufficient_data")
                       ELSE IF ~t.usable THEN NotOk("data_unusable")
                       ELSE IF t.bars < Rules.technical.minHistory THEN NotOk("insufficient_data")
                       ELSE IF LevelsHold(t, c.tilt) THEN Ok(c.score, confidence)
                       ELSE NotOk("failed")
  BY DEF Technical, Share3
<1> HIDE DEF c
<1>6. sure \in 0 .. 100
  BY <1>3, <1>4, ShareOfShares
<1> HIDE DEF sure
<1>7. confidence \in 0 .. 100
  <2>1. half \in 0 .. 100
    BY <1>6
  <2> HIDE DEF half
  <2> QED
    BY <1>6, <2>1
<1> HIDE DEF confidence
<1>8. Ok(c.score, confidence).status # "failed"
  BY <1>3, <1>7, NothingFailed
<1>9. ~(t.bars < Rules.technical.minHistory) /\ ~LevelsHold(t, c.tilt)
  BY <1>5, <1>8, NothingFailed
<1>10. t.bars >= Rules.technical.minHistory
  BY <1>2, <1>4, <1>9
<1> QED
  BY <1>9, <1>10 DEF c

\* A signal of the strength of a distance over a threshold.
LEMMA WhenRatio ==
    ASSUME NEW p, NEW name, NEW category, NEW value, NEW k \in Nat, NEW x, NEW n \in Nat \ {0},
           p => value \in Int /\ x \in Int
    PROVE  Signals(When(p, {Sig(name, category, value, (k * Size(x)) \div n)}))
<1> DEFINE q == (k * Size(x)) \div n
<1>1. p => k * Size(x) \in Int
  BY SizeIsNat
<1>2. p => value \in Int /\ q \in Int
  BY <1>1, QuotientIsInt
<1> HIDE DEF q
<1>3. Signals(When(p, {Sig(name, category, value, q)}))
  BY <1>2, WhenSig
<1> QED
  BY <1>3 DEF q

LEMMA SumIsInt == \A x, y \in Int : x + y \in Int /\ x - y \in Int
OBVIOUS

LEMMA FundamentalThresholds ==
    ASSUME FundamentalRules(Rules.fundamental)
    PROVE  LET r == Rules.fundamental IN
           /\ r.cheapPe \in Nat \ {0} /\ r.expensivePe \in Nat \ {0} /\ r.strongGrowth \in Nat \ {0}
           /\ r.highRoe \in Nat \ {0} /\ r.highRoce \in Nat \ {0} /\ r.maxDebtToEquity \in Nat \ {0}
           /\ r.minInterestCoverage \in Nat \ {0} /\ r.weakCashConversion \in Nat \ {0}
           /\ r.marginMove \in Nat /\ r.minGrowthForPeg \in Nat \ {0} /\ r.minPeriods \in Nat
           /\ Shares(r.weights)
<1> DEFINE r == Rules.fundamental
<1>1. /\ r.cheapPe \in 1 .. 500 /\ r.expensivePe \in r.cheapPe + 1 .. 500
      /\ r.minPeriods \in 1 .. 20 /\ r.marginMove \in 1 .. 99 /\ r.minGrowthForPeg \in 1 .. 99
      /\ r.strongGrowth \in Nat \ {0} /\ r.highRoe \in Nat \ {0} /\ r.highRoce \in Nat \ {0}
      /\ r.maxDebtToEquity \in Nat \ {0} /\ r.minInterestCoverage \in Nat \ {0}
      /\ r.weakCashConversion \in Nat \ {0} /\ Shares(r.weights)
  BY DEF FundamentalRules, Positive
<1> HIDE DEF r
<1>2. /\ r.cheapPe \in Nat \ {0} /\ r.expensivePe \in Nat \ {0} /\ r.minGrowthForPeg \in Nat \ {0}
      /\ r.minPeriods \in Nat /\ r.marginMove \in Nat
  BY <1>1
<1> QED
  BY <1>1, <1>2 DEF r

LEMMA GrowthSignalsAreSignals ==
    ASSUME FundamentalRules(Rules.fundamental), NEW f, Typed("fundamental", f)
    PROVE  Signals(GrowthSignals(f))
<1> DEFINE strong == Rules.fundamental.strongGrowth
           s1 == {Sig("revenue_growth", "growth", f.growth, (100 * Size(f.growth)) \div strong)}
           turn == Known(f.before) /\ Size(f.growth - f.before) >= 3
           s2 == When(turn, {Sig("growth_trend", "growth", f.growth - f.before,
                                     10 * Size(f.growth - f.before))})
           s3 == When(Known(f.eps), {Sig("eps_growth", "growth", f.eps,
                                               (100 * Size(f.eps)) \div strong)})
<1>1. /\ Known(f.growth) => f.growth \in Int
      /\ Known(f.before) => f.before \in Int
      /\ Known(f.eps) => f.eps \in Int
  BY FundamentalFacts, KnownFacts
<1>2. strong \in Nat \ {0}
  BY FundamentalThresholds
<1>3. GrowthSignals(f) = When(Known(f.growth), s1 \cup s2) \cup s3
  BY DEF GrowthSignals
<1> HIDE DEF strong
<1>4. Signals(s3)
  BY <1>1, <1>2, WhenRatio
<1>5. ASSUME Known(f.growth) PROVE Signals(s1 \cup s2)
  <2>1. turn => f.growth - f.before \in Int /\ 10 * Size(f.growth - f.before) \in Int
    <3> SUFFICES ASSUME turn PROVE f.growth - f.before \in Int /\ 10 * Size(f.growth - f.before) \in Int
      OBVIOUS
    <3>1. f.growth - f.before \in Int
      BY <1>1, <1>5
    <3> QED
      BY <3>1, SizeIsNat
  <2> HIDE DEF turn
  <2>2. Signals(s2)
    BY <2>1, WhenSig
  <2>3. Signals(s1)
    <3>1. 100 * Size(f.growth) \in Int
      BY <1>1, <1>5, SizeIsNat
    <3>2. (100 * Size(f.growth)) \div strong \in Int
      BY <1>2, <3>1, QuotientIsInt
    <3> QED
      BY <1>1, <1>5, <3>2, SigIsSignal
  <2> HIDE DEF s1, s2
  <2> QED
    BY <2>2, <2>3, SignalsTogether
<1> HIDE DEF s1, s2, s3
<1>6. Signals(When(Known(f.growth), s1 \cup s2))
  BY <1>5, WhenSignals
<1> QED
  BY <1>3, <1>4, <1>6, SignalsTogether

LEMMA ProfitSignalsAreSignals ==
    ASSUME FundamentalRules(Rules.fundamental), NEW f, Typed("fundamental", f)
    PROVE  Signals(ProfitSignals(f))
<1> DEFINE both == Known(f.margin) /\ Known(f.marginBefore)
           moved == f.margin - f.marginBefore
           stir == Sig("margin", "profitability", moved, 20 * Size(moved))
           calm == Sig("margin_stable", "profitability", 0, 30)
           s1 == {IF Size(moved) >= Rules.fundamental.marginMove THEN stir ELSE calm}
<1>1. /\ Known(f.margin) => f.margin \in Int
      /\ Known(f.marginBefore) => f.marginBefore \in Int
      /\ Known(f.roe) => f.roe \in Int
      /\ Known(f.roce) => f.roce \in Int
  BY FundamentalFacts, KnownFacts
<1>2. ASSUME both PROVE Signals(s1)
  <2>1. moved \in Int
    BY <1>1, <1>2
  <2> HIDE DEF moved
  <2>2. 20 * Size(moved) \in Int
    BY <2>1, SizeIsNat
  <2>3. Signals({stir}) /\ Signals({calm})
    BY <2>1, <2>2, SigIsSignal
  <2> HIDE DEF stir, calm
  <2> QED
    BY <2>3
<1>3. ASSUME NEW name, NEW ratio, Known(ratio) => ratio \in Int, NEW high \in Nat \ {0}
      PROVE  Signals(Benchmarked(name, ratio, high))
  <2>1. Known(ratio) => ratio - high \in Int /\ ratio - high \in Int
    BY <1>3
  <2>2. Signals(When(Known(ratio), {Sig(name, "profitability", ratio - high,
                                              (100 * Size(ratio - high)) \div high)}))
    BY <2>1, WhenRatio
  <2> QED
    BY <2>2 DEF Benchmarked
<1>4. /\ Signals(Benchmarked("roe", f.roe, Rules.fundamental.highRoe))
      /\ Signals(Benchmarked("roce", f.roce, Rules.fundamental.highRoce))
  BY <1>1, <1>3, FundamentalThresholds
<1>5. ProfitSignals(f) = When(both, s1) \cup Benchmarked("roe", f.roe, Rules.fundamental.highRoe)
                           \cup Benchmarked("roce", f.roce, Rules.fundamental.highRoce)
  BY DEF ProfitSignals
<1> HIDE DEF both, s1
<1>6. Signals(When(both, s1))
  BY <1>2, WhenSignals
<1> QED
  BY <1>4, <1>5, <1>6, SignalsTogether

LEMMA SolvencySignalsAreSignals ==
    ASSUME FundamentalRules(Rules.fundamental), NEW f, Typed("fundamental", f)
    PROVE  Signals(SolvencySignals(f))
<1> DEFINE limit == Rules.fundamental.maxDebtToEquity
           cover == Rules.fundamental.minInterestCoverage
           cash == Rules.fundamental.weakCashConversion
           load == (100 * f.debt) \div limit
           more == Sig("leverage", "balance_sheet", -1, load)
           less == Sig("leverage", "balance_sheet", 1, 100 - load)
           thin == Sig("interest_coverage", "balance_sheet", -1, 80)
           wide == Sig("interest_coverage", "balance_sheet", 1, (10 * f.coverage) \div cover)
           side == IF f.conversion < cash THEN -1 ELSE 1
           poor == Known(f.operating) /\ f.operating < 100
           s1 == {IF f.debt > limit THEN more ELSE less}
           s2 == {IF f.coverage < cover THEN thin ELSE wide}
           s3 == When(Known(f.conversion), {Sig("cash_conversion", "cash_quality", side,
                                                      2 * Size(f.conversion - cash))})
           s4 == When(poor, {Sig("earnings_quality", "cash_quality", -1, 100 - f.operating)})
           all == When(Known(f.debt), s1) \cup When(Known(f.coverage), s2) \cup s3 \cup s4
<1>1. /\ Known(f.debt) => f.debt \in Int
      /\ Known(f.coverage) => f.coverage \in Int
      /\ Known(f.conversion) => f.conversion \in Int
      /\ Known(f.operating) => f.operating \in Int
  BY FundamentalFacts, KnownFacts
<1>2. limit \in Nat \ {0} /\ cover \in Nat \ {0} /\ cash \in Nat \ {0}
  BY FundamentalThresholds
<1>3. SolvencySignals(f) = When(~f.lender, all)
  BY DEF SolvencySignals
<1> HIDE DEF limit, cover, cash
<1>4. ASSUME Known(f.debt) PROVE Signals(s1)
  <2>1. load \in Int
    <3>1. 100 * f.debt \in Int
      BY <1>1, <1>4
    <3> QED
      BY <1>2, <3>1, QuotientIsInt
  <2> HIDE DEF load
  <2>2. 100 - load \in Int /\ -1 \in Int
    BY <2>1
  <2>3. Signals({more}) /\ Signals({less})
    BY <2>1, <2>2, SigIsSignal
  <2> HIDE DEF more, less
  <2> QED
    BY <2>3
<1>5. ASSUME Known(f.coverage) PROVE Signals(s2)
  <2>1. 10 * f.coverage \in Int /\ -1 \in Int
    BY <1>1, <1>5
  <2>2. (10 * f.coverage) \div cover \in Int
    BY <1>2, <2>1, QuotientIsInt
  <2>3. Signals({thin}) /\ Signals({wide})
    BY <2>1, <2>2, SigIsSignal
  <2> HIDE DEF thin, wide
  <2> QED
    BY <2>3
<1>6. Signals(s3)
  <2>1. Known(f.conversion) => side \in Int /\ 2 * Size(f.conversion - cash) \in Int
    <3> SUFFICES ASSUME Known(f.conversion)
                 PROVE  side \in Int /\ 2 * Size(f.conversion - cash) \in Int
      OBVIOUS
    <3>1. f.conversion - cash \in Int
      BY <1>1, <1>2
    <3>2. Size(f.conversion - cash) \in Int
      BY <3>1, SizeIsNat
    <3> QED
      BY <3>2
  <2> HIDE DEF side
  <2> QED
    BY <2>1, WhenSig
<1>7. Signals(s4)
  <2>1. poor => -1 \in Int /\ 100 - f.operating \in Int
    BY <1>1
  <2> HIDE DEF poor
  <2> QED
    BY <2>1, WhenSig
<1> HIDE DEF s1, s2, s3, s4
<1>8. Signals(When(Known(f.debt), s1)) /\ Signals(When(Known(f.coverage), s2))
  BY <1>4, <1>5, WhenSignals
<1>9. Signals(all)
  BY <1>6, <1>7, <1>8, SignalsTogether
<1> HIDE DEF all
<1> QED
  BY <1>3, <1>9, WhenSignals

LEMMA MultipleSignalsAreSignals ==
    ASSUME FundamentalRules(Rules.fundamental), NEW f, Typed("fundamental", f)
    PROVE  Signals(MultipleSignals(f))
<1> DEFINE r == Rules.fundamental
           dear == Sig("pe_level", "valuation", -1, (100 * f.pe) \div r.expensivePe - 50)
           cheap == Sig("pe_level", "valuation", 1, (100 * r.cheapPe) \div f.pe - 50)
           fair == Sig("pe_level", "valuation", 0, 30)
           peg == (100 * f.pe) \div f.eps
           side == IF peg < 100 THEN 1 ELSE IF peg > 200 THEN -1 ELSE 0
           growing == Known(f.eps) /\ f.eps >= r.minGrowthForPeg
           s1 == {IF f.pe >= r.expensivePe THEN dear ELSE IF f.pe <= r.cheapPe THEN cheap ELSE fair}
           s2 == When(Known(f.peerPe), {Sig("pe_vs_peers", "valuation", f.peerPe - f.pe,
                                                  Size((100 * f.pe) \div f.peerPe - 100))})
           s3 == When(growing, {Sig("peg", "valuation", side, (2 * Size(peg - 150)) \div 3)})
<1>1. /\ Known(f.pe) => f.pe \in Nat \ {0}
      /\ Known(f.peerPe) => f.peerPe \in Nat \ {0}
      /\ Known(f.eps) => f.eps \in Int
  BY FundamentalFacts, KnownFacts DEF Positive
<1>2. r.cheapPe \in Nat \ {0} /\ r.expensivePe \in Nat \ {0} /\ r.minGrowthForPeg \in Nat \ {0}
  BY FundamentalThresholds
<1>3. MultipleSignals(f) = When(Known(f.pe), s1 \cup s2 \cup s3)
  BY DEF MultipleSignals
<1> HIDE DEF r
<1>4. ASSUME Known(f.pe) PROVE Signals(s1 \cup s2 \cup s3)
  <2>0. f.pe \in Nat \ {0} /\ 100 * f.pe \in Int /\ -1 \in Int
    BY <1>1, <1>4
  <2>1. Signals(s1)
    <3> DEFINE x == (100 * f.pe) \div r.expensivePe
               y == (100 * r.cheapPe) \div f.pe
    <3>1. x \in Int /\ y \in Int
      <4>1. 100 * r.cheapPe \in Int
        BY <1>2
      <4> QED
        BY <1>2, <2>0, <4>1, QuotientIsInt
    <3>2. dear = Sig("pe_level", "valuation", -1, x - 50) /\ cheap = Sig("pe_level", "valuation", 1, y - 50)
      OBVIOUS
    <3> HIDE DEF x, y, dear, cheap
    <3>3. x - 50 \in Int /\ y - 50 \in Int
      BY <3>1
    <3>4. Signals({dear}) /\ Signals({cheap}) /\ Signals({fair})
      BY <2>0, <3>2, <3>3, SigIsSignal
    <3> HIDE DEF fair
    <3> QED
      BY <3>4
  <2>2. Signals(s2)
    <3>1. Known(f.peerPe) => /\ f.peerPe - f.pe \in Int
                             /\ Size((100 * f.pe) \div f.peerPe - 100) \in Int
      <4> SUFFICES ASSUME Known(f.peerPe)
                   PROVE  f.peerPe - f.pe \in Int /\ Size((100 * f.pe) \div f.peerPe - 100) \in Int
        OBVIOUS
      <4>1. (100 * f.pe) \div f.peerPe \in Int
        BY <1>1, <2>0, QuotientIsInt
      <4>2. (100 * f.pe) \div f.peerPe - 100 \in Int
        BY <4>1, SumIsInt
      <4>3. f.peerPe - f.pe \in Int
        BY <1>1, <2>0
      <4> QED
        BY <4>2, <4>3, SizeIsNat
    <3> QED
      BY <3>1, WhenSig
  <2>3. Signals(s3)
    <3>1. growing => side \in Int /\ peg - 150 \in Int
      <4> SUFFICES ASSUME growing PROVE side \in Int /\ peg - 150 \in Int
        OBVIOUS
      <4>1. f.eps \in Nat \ {0}
        BY <1>1, <1>2
      <4>2. peg \in Int
        BY <2>0, <4>1, QuotientIsInt
      <4> HIDE DEF peg
      <4> QED
        BY <4>2
    <3> HIDE DEF growing, side, peg
    <3> QED
      BY <3>1, WhenRatio
  <2> HIDE DEF s1, s2, s3
  <2> QED
    BY <2>1, <2>2, <2>3, SignalsTogether
<1> HIDE DEF s1, s2, s3
<1> QED
  BY <1>3, <1>4, WhenSignals

LEMMA FundamentalSeldomFails ==
    ASSUME FundamentalRules(Rules.fundamental), NEW f, Typed("fundamental", f),
           Fundamental(f).status = "failed"
    PROVE  Rules.fundamental.minPeriods = 1 /\ f.periods = 1
<1> SUFFICES ASSUME ~(Rules.fundamental.minPeriods = 1 /\ f.periods = 1) PROVE FALSE
  OBVIOUS
<1> DEFINE c == Composite(FundamentalSignals(f), Rules.fundamental.weights)
           source == IF f.licensed THEN 100 ELSE 90
           sure == Share3(c.agreement, c.breadth, source)
<1>1. Signals(FundamentalSignals(f))
  BY GrowthSignalsAreSignals, ProfitSignalsAreSignals, SolvencySignalsAreSignals,
     MultipleSignalsAreSignals, SignalsTogether DEF FundamentalSignals
<1>2. Shares(Rules.fundamental.weights)
  BY FundamentalThresholds
<1>3. c.score \in Scores /\ c.agreement \in 0 .. 100 /\ c.breadth \in 0 .. 100
  BY <1>1, <1>2, CompositeBounds
<1>4. Fundamental(f) \in {NotOk("insufficient_data"), Ok(c.score, sure)}
  <2>1. f.periods \in Nat /\ Rules.fundamental.minPeriods \in 1 .. 20
    BY DEF FundamentalRules, Typed, FactTypes
  <2>2. f.periods < Rules.fundamental.minPeriods \/ ~(f.periods < 2)
    BY <2>1
  <2> QED
    BY <2>2 DEF Fundamental, Share3
<1> HIDE DEF c
<1>5. source \in 0 .. 100
  OBVIOUS
<1> HIDE DEF source
<1>6. sure \in 0 .. 100
  BY <1>3, <1>5, ShareOfShares
<1> HIDE DEF sure
<1> QED
  BY <1>3, <1>4, <1>6, NothingFailed

\* The portfolio agent's signals are as many as the limits it caused to fail, and a few.
LEMMA FitSignalsAreSignals ==
    ASSUME PortfolioRules(Rules.portfolio), NEW p, Typed("portfolio", p), IsFiniteSet(Limits)
    PROVE  Signals(FitSignals(p))
<1> DEFINE none == {Sig("limits", "limits", 1, 50)}
           broken == {Sig(l, "limits", -1, 100) : l \in Caused(p)}
           high == Rules.portfolio.maxSectorWeight
           s1 == IF Caused(p) = {} THEN none ELSE broken
           s2 == When(Known(p.correlation), {Sig("diversification", "diversification",
                           50 - p.correlation, 2 * Size(p.correlation - 50))})
           s3 == When(Known(p.volatility), {Sig("marginal_volatility", "volatility",
                           -p.volatility, 50 * Size(p.volatility))})
           s4 == When(Known(p.room), {Sig("sector_room", "sector", p.room,
                           (100 * Size(p.room)) \div high)})
<1>1. /\ Known(p.correlation) => p.correlation \in Int
      /\ Known(p.volatility) => p.volatility \in Int
      /\ Known(p.room) => p.room \in Int
      /\ DOMAIN p.limits = Limits
  BY PortfolioFacts, KnownFacts
<1>2. high \in Nat \ {0}
  BY DEF PortfolioRules
<1>3. FitSignals(p) = s1 \cup s2 \cup s3 \cup s4
  BY DEF FitSignals
<1> HIDE DEF high
<1>4. Signals(none)
  BY SigIsSignal
<1>5. Signals(broken)
  <2>1. IsFiniteSet(Caused(p))
    BY <1>1, FS_Subset DEF Caused
  <2>2. IsFiniteSet(broken)
    <3> DEFINE f == [l \in Caused(p) |-> Sig(l, "limits", -1, 100)]
    <3>1. IsFiniteSet({f[l] : l \in Caused(p)})
      BY <2>1, ImageIsNoLarger
    <3>2. broken = {f[l] : l \in Caused(p)}
      OBVIOUS
    <3> QED
      BY <3>1, <3>2
  <2>3. \A l : Signals({Sig(l, "limits", -1, 100)})
    <3>1. -1 \in Int /\ 100 \in Int
      OBVIOUS
    <3> QED
      BY <3>1, SigIsSignal
  <2>4. \A l : Signal(Sig(l, "limits", -1, 100))
    BY <2>3 DEF Signals
  <2> QED
    BY <2>2, <2>4 DEF Signals
<1>6. Signals(s2)
  <2>1. Known(p.correlation) => 50 - p.correlation \in Int /\ 2 * Size(p.correlation - 50) \in Int
    <3> SUFFICES ASSUME Known(p.correlation)
                 PROVE  50 - p.correlation \in Int /\ 2 * Size(p.correlation - 50) \in Int
      OBVIOUS
    <3>1. p.correlation - 50 \in Int /\ 50 - p.correlation \in Int
      BY <1>1
    <3> QED
      BY <3>1, SizeIsNat
  <2> QED
    BY <2>1, WhenSig
<1>7. Signals(s3)
  <2>1. Known(p.volatility) => -p.volatility \in Int /\ 50 * Size(p.volatility) \in Int
    BY <1>1, SizeIsNat
  <2> QED
    BY <2>1, WhenSig
<1>8. Signals(s4)
  BY <1>1, <1>2, WhenRatio
<1>9. Signals(s1)
  <2> HIDE DEF none, broken
  <2> QED
    BY <1>4, <1>5
<1> HIDE DEF s1, s2, s3, s4
<1> QED
  BY <1>3, <1>6, <1>7, <1>8, <1>9, SignalsTogether

LEMMA PortfolioNeverFails ==
    ASSUME PortfolioRules(Rules.portfolio), NEW p, Typed("portfolio", p), IsFiniteSet(Limits)
    PROVE  PortfolioFit(p).status # "failed"
<1> DEFINE c == Composite(FitSignals(p), Rules.portfolio.weights)
           sure == Share2(c.agreement, c.breadth)
<1>1. c.score \in Scores /\ c.agreement \in 0 .. 100 /\ c.breadth \in 0 .. 100
  BY FitSignalsAreSignals, CompositeBounds DEF PortfolioRules
<1>2. PortfolioFit(p) \in {NotOk("insufficient_data"), Ok(c.score, sure)}
  BY DEF PortfolioFit, Share2
<1> HIDE DEF c
<1>3. sure \in 0 .. 100
  BY <1>1, ShareOfShares
<1> HIDE DEF sure
<1> QED
  BY <1>1, <1>2, <1>3, NothingFailed

\* The macro agent reads at most the drivers its sector is sensitive to.
LEMMA MacroSignalsAreSignals ==
    ASSUME MacroRules(Rules.macro), NEW x, Typed("macro", x)
    PROVE  /\ Signals(MacroSignals(x)) /\ Signals({RegimeSignal(x)})
           /\ IsFiniteSet(DOMAIN Rules.macro.sensitivities[x.sector])
           /\ Cardinality(MacroSignals(x)) <= Cardinality(DOMAIN Rules.macro.sensitivities[x.sector])
<1> DEFINE sens == Rules.macro.sensitivities[x.sector]
           read == {s \in DOMAIN sens : Known(x.change[s])}
           scale(s) == IF s \in Rules.macro.rates THEN 1 ELSE 10
           reach(s) == (100 * Size(x.change[s])) \div scale(s)
           heft(s) == (Least(100, reach(s)) * Size(sens[s])) \div 100
           f == [s \in read |-> Sig(s, "macro", sens[s] * x.change[s], heft(s))]
<1>1. /\ x.sector \in DOMAIN Rules.macro.sensitivities
      /\ x.change \in [Changed -> Maybe(Int)]
  BY MacroFacts
<1>2. IsFiniteSet(DOMAIN sens) /\ \A s \in DOMAIN sens : sens[s] \in -100 .. 100
  BY <1>1 DEF MacroRules
<1>3. DOMAIN sens \subseteq Changed
  BY <1>1 DEF Changed
<1>4. MacroSignals(x) = {f[s] : s \in read}
  BY DEF MacroSignals
<1>5. IsFiniteSet(read) /\ Cardinality(read) <= Cardinality(DOMAIN sens)
  BY <1>2, FS_Subset
<1>6. ASSUME NEW s \in read PROVE Signal(f[s])
  <2>1. sens[s] \in Int /\ x.change[s] \in Int
    <3>1. x.change[s] \in Maybe(Int) /\ Known(x.change[s])
      BY <1>1, <1>3
    <3>2. x.change[s] \in Int
      BY <3>1, KnownFacts
    <3>3. s \in DOMAIN sens
      OBVIOUS
    <3>4. sens[s] \in -100 .. 100
      BY <1>2, <3>3
    <3> QED
      BY <3>2, <3>4
  <2>2. sens[s] * x.change[s] \in Int /\ Size(sens[s]) \in Int /\ 100 * Size(x.change[s]) \in Int
    BY <2>1, SizeIsNat
  <2>3. scale(s) \in Nat \ {0}
    OBVIOUS
  <2>4. f[s] = Sig(s, "macro", sens[s] * x.change[s], heft(s))
    OBVIOUS
  <2> HIDE DEF f, sens, read, scale
  <2>5. reach(s) \in Int
    BY <2>2, <2>3, QuotientIsInt
  <2> HIDE DEF reach
  <2>6. Least(100, reach(s)) \in Int
    BY <2>5 DEF Least
  <2>7. Least(100, reach(s)) * Size(sens[s]) \in Int
    BY <2>2, <2>6
  <2>8. heft(s) \in Int
    BY <2>7, QuotientIsInt
  <2> HIDE DEF heft
  <2>9. Signals({f[s]})
    BY <2>2, <2>4, <2>8, SigIsSignal
  <2> QED
    BY <2>9 DEF Signals
<1>7. Signals({RegimeSignal(x)})
  <2> DEFINE side == CASE x.regime = "risk_on" -> 1 [] x.regime = "risk_off" -> -1 [] OTHER -> 0
  <2>1. side \in Int
    OBVIOUS
  <2>2. RegimeSignal(x) = Sig("market_regime", "regime", side, 60)
    BY DEF RegimeSignal
  <2> HIDE DEF side
  <2> QED
    BY <2>1, <2>2, SigIsSignal
<1> HIDE DEF f, read
<1>8. IsFiniteSet({f[s] : s \in read}) /\ Cardinality({f[s] : s \in read}) <= Cardinality(read)
  BY <1>5, ImageIsNoLarger
<1>9. Signals(MacroSignals(x))
  BY <1>4, <1>6, <1>8 DEF Signals
<1>10. Cardinality(MacroSignals(x)) <= Cardinality(DOMAIN sens)
  <2>1. IsFiniteSet(MacroSignals(x))
    BY <1>9 DEF Signals
  <2>2. Cardinality(MacroSignals(x)) \in Nat /\ Cardinality(read) \in Nat /\ Cardinality(DOMAIN sens) \in Nat
    BY <1>2, <1>5, <2>1, FS_CardinalityType
  <2> QED
    BY <1>4, <1>5, <1>8, <2>2
<1> QED
  BY <1>2, <1>7, <1>9, <1>10

\* The score of a mean of signals.
LEMMA MeanScore ==
    ASSUME NEW net \in Int, NEW n \in Nat \ {0}, -100 * n <= net, net <= 100 * n
    PROVE  5000 + (50 * net) \div n \in Scores
<1>1. PICK lo \in Int : lo = -5000
  OBVIOUS
<1> DEFINE q == (50 * net) \div n
<1>2. 50 * net \in Int /\ lo * n <= 50 * net /\ 50 * net <= 5000 * n
  BY <1>1
<1>3. q \in lo .. 5000
  BY <1>2, DivisionWithin
<1> HIDE DEF q
<1>4. 5000 + q \in Scores
  BY <1>1, <1>3 DEF Scores
<1> QED
  BY <1>4 DEF q

LEMMA MacroNeverFails ==
    ASSUME MacroRules(Rules.macro), NEW x, Typed("macro", x)
    PROVE  Macro(x).status # "failed"
<1> DEFINE drivers == MacroSignals(x)
           all == drivers \cup {RegimeSignal(x)}
           read == Cardinality(DOMAIN Rules.macro.sensitivities[x.sector])
           share == (100 * Cardinality(drivers)) \div read
           known == IF x.sector = "none" THEN 50 ELSE 100
           sure == Share3(Agreement(all), share, known)
           score == 5000 + (50 * Net(all)) \div Cardinality(all)
<1>1. /\ Signals(drivers) /\ Signals({RegimeSignal(x)})
      /\ IsFiniteSet(DOMAIN Rules.macro.sensitivities[x.sector])
      /\ Cardinality(drivers) <= read
  BY MacroSignalsAreSignals
<1>2. Signals(all)
  BY <1>1, SignalsTogether
<1>3. Macro(x) = IF drivers = {} THEN NotOk("insufficient_data") ELSE Ok(score, sure)
  BY DEF Macro, Share3
<1> SUFFICES ASSUME drivers # {} PROVE Ok(score, sure).status # "failed"
  BY <1>3, NothingFailed
<1>4. Cardinality(drivers) \in Nat \ {0} /\ read \in Nat
  BY <1>1, FS_EmptySet, FS_CardinalityType DEF Signals
<1>5. Cardinality(all) \in Nat \ {0}
  <2>1. all # {} /\ IsFiniteSet(all)
    BY <1>2 DEF Signals
  <2> HIDE DEF all
  <2> QED
    BY <2>1, FS_EmptySet, FS_CardinalityType
<1>6. Net(all) \in Int /\ -100 * Cardinality(all) <= Net(all) /\ Net(all) <= 100 * Cardinality(all)
  BY <1>2, NetWithinPull
<1>7. Agreement(all) \in 0 .. 100
  BY <1>2, AgreementIsAShare
<1> HIDE DEF drivers, all, read
<1>8. score \in Scores
  BY <1>5, <1>6, MeanScore
<1>9. share \in 0 .. 100
  <2>1. /\ 100 * Cardinality(drivers) \in Int /\ read \in Nat \ {0}
        /\ 0 * read <= 100 * Cardinality(drivers) /\ 100 * Cardinality(drivers) <= 100 * read
    BY <1>1, <1>4
  <2> QED
    BY <2>1, DivisionWithin
<1>10. known \in 0 .. 100
  OBVIOUS
<1> HIDE DEF share, known, score
<1>11. sure \in 0 .. 100
  BY <1>7, <1>9, <1>10, ShareOfShares
<1> HIDE DEF sure
<1> QED
  BY <1>8, <1>11, NothingFailed

\* A finite set of integers has a greatest and a least element.
LEMMA GreatestAndLeast ==
    ASSUME NEW S, IsFiniteSet(S), S # {}, S \subseteq Int
    PROVE  /\ Max(S) \in S /\ \A y \in S : y <= Max(S)
           /\ Min(S) \in S /\ \A y \in S : Min(S) <= y
<1> DEFINE T == {u \in SUBSET S : u # {} => /\ \E x \in u : \A y \in u : x >= y
                                            /\ \E x \in u : \A y \in u : x <= y}
<1>1. ASSUME NEW u \in SUBSET S, \A x \in u : u \ {x} \in T PROVE u \in T
  <2> SUFFICES ASSUME u # {}
               PROVE  (\E x \in u : \A y \in u : x >= y) /\ (\E x \in u : \A y \in u : x <= y)
    OBVIOUS
  <2>1. PICK c \in u : c \in Int
    OBVIOUS
  <2>2. CASE u \ {c} = {}
    BY <2>1, <2>2
  <2>3. CASE u \ {c} # {}
    <3>1. u \ {c} \in T
      BY <1>1
    <3>2. PICK a \in u \ {c} : \A y \in u \ {c} : a >= y
      BY <2>3, <3>1
    <3>3. PICK b \in u \ {c} : \A y \in u \ {c} : b <= y
      BY <2>3, <3>1
    <3>4. \E x \in u : \A y \in u : x >= y
      <4>1. CASE a >= c
        BY <2>1, <3>2, <4>1
      <4>2. CASE ~(a >= c)
        BY <2>1, <3>2, <4>2
      <4> QED
        BY <4>1, <4>2
    <3>5. \E x \in u : \A y \in u : x <= y
      <4>1. CASE b <= c
        BY <2>1, <3>3, <4>1
      <4>2. CASE ~(b <= c)
        BY <2>1, <3>3, <4>2
      <4> QED
        BY <4>1, <4>2
    <3> QED
      BY <3>4, <3>5
  <2> QED
    BY <2>2, <2>3
<1>2. S \in T
  <2>1. SUBSET S \subseteq T
    <3> HIDE DEF T
    <3> QED
      BY <1>1, FiniteSetInduction
  <2> QED
    BY <2>1
<1>3. \E x \in S : \A y \in S : x >= y
  BY <1>2
<1>4. \E x \in S : \A y \in S : x <= y
  BY <1>2
<1>5. Max(S) \in S /\ \A y \in S : Max(S) >= y
  BY <1>3, Zenon DEF Max
<1>6. Min(S) \in S /\ \A y \in S : Min(S) <= y
  BY <1>4, Zenon DEF Min
<1> QED
  BY <1>5, <1>6

\* A headline that is scored weighs something, and its tone is at most full.
LEMMA ScoredHeadlines ==
    ASSUME NEW n, Typed("news", n)
    PROVE  /\ IsFiniteSet(Scored(n.items))
           /\ \A i \in Scored(n.items) : /\ Weight(i) \in Nat \ {0}
                                         /\ i.sentiment \in -100 .. 100 /\ i.label \in Int
<1>1. n.items \subseteq Headlines /\ IsFiniteSet(n.items)
  BY NewsFacts
<1>2. Scored(n.items) \subseteq n.items
  BY DEF Scored
<1>3. IsFiniteSet(Scored(n.items))
  BY <1>1, <1>2, FS_Subset
<1>4. ASSUME NEW i \in Scored(n.items)
      PROVE  Weight(i) \in Nat \ {0} /\ i.sentiment \in -100 .. 100 /\ i.label \in Int
  <2>1. i \in Headlines /\ Known(i.sentiment)
    BY <1>1, <1>2 DEF Scored
  <2>2. Weight(i) \in Nat \ {0} /\ i.sentiment \in Maybe(-100 .. 100) /\ i.label \in -1 .. 1
    BY <2>1 DEF Headlines, Positive
  <2> QED
    BY <2>1, <2>2, KnownFacts
<1> QED
  BY <1>3, <1>4

LEMMA NewsSignalsAreSignals ==
    ASSUME NEW n, Typed("news", n), Scored(n.items) # {}
    PROVE  Signals(NewsSignals(Scored(n.items)))
<1> DEFINE items == Scored(n.items)
           w == [i \in items |-> Weight(i)]
           weights == {w[i] : i \in items}
           top == Max(weights)
           f == [i \in Loudest(items) |-> Sig(i, i.event, i.label,
                                                 (Size(i.sentiment) * Weight(i)) \div top)]
<1>1. /\ IsFiniteSet(items)
      /\ \A i \in items : /\ Weight(i) \in Nat \ {0} /\ i.sentiment \in -100 .. 100
                          /\ i.label \in Int
  BY ScoredHeadlines
<1>2. Loudest(items) \subseteq items
  BY DEF Loudest
<1>3. IsFiniteSet(Loudest(items))
  BY <1>1, <1>2, FS_Subset
<1>4. weights = {Weight(i) : i \in items}
  OBVIOUS
<1>5. top \in Nat \ {0}
  <2>1. weights \subseteq Nat \ {0} /\ weights # {}
    BY <1>1, <1>4
  <2>2. IsFiniteSet(weights)
    BY <1>1, ImageIsNoLarger
  <2> HIDE DEF weights
  <2>3. top \in weights
    <3>1. weights \subseteq Int
      BY <2>1
    <3> QED
      BY <2>1, <2>2, <3>1, GreatestAndLeast
  <2> HIDE DEF top
  <2> QED
    BY <2>1, <2>3
<1>6. NewsSignals(items) = {f[i] : i \in Loudest(items)}
  <2>1. NewsSignals(items) =
          {Sig(i, i.event, i.label, (Size(i.sentiment) * Weight(i)) \div Max({Weight(j) : j \in items}))
              : i \in Loudest(items)}
    BY DEF NewsSignals
  <2>2. top = Max({Weight(j) : j \in items})
    BY <1>4
  <2> HIDE DEF top, weights
  <2> QED
    BY <2>1, <2>2
<1> HIDE DEF items, top
<1>7. ASSUME NEW i \in Loudest(items) PROVE Signal(f[i])
  <2> DEFINE strength == (Size(i.sentiment) * Weight(i)) \div top
  <2>1. Weight(i) \in Nat \ {0} /\ i.sentiment \in Int /\ i.label \in Int
    BY <1>1, <1>2
  <2>2. Size(i.sentiment) \in Int
    BY <2>1, SizeIsNat
  <2>3. Size(i.sentiment) * Weight(i) \in Int
    BY <2>1, <2>2
  <2>4. strength \in Int
    BY <1>5, <2>3, QuotientIsInt
  <2>5. f[i] = Sig(i, i.event, i.label, strength)
    OBVIOUS
  <2> HIDE DEF f, strength
  <2>6. Signals({f[i]})
    BY <2>1, <2>4, <2>5, SigIsSignal
  <2> QED
    BY <2>6 DEF Signals
<1> HIDE DEF f
<1>8. IsFiniteSet({f[i] : i \in Loudest(items)})
  BY <1>3, ImageIsNoLarger
<1>9. Signals(NewsSignals(items))
  BY <1>6, <1>7, <1>8 DEF Signals
<1> QED
  BY <1>9 DEF items

LEMMA NewsNeverFails ==
    ASSUME NewsRules(Rules.news), NEW n, Typed("news", n)
    PROVE  News(n).status # "failed"
<1> DEFINE items == Scored(n.items)
           w == [i \in items |-> Weight(i)]
           t == [i \in items |-> Weight(i) * i.sentiment]
           total == SumFunction(w)
           tone == SumFunction(t)
           score == 5000 + (50 * tone) \div total
           sure == (Agreement(NewsSignals(items)) * Least(10, Cardinality(items))) \div 10
           half == sure \div 2
           confidence == IF Contradictions(items) = {} THEN sure ELSE half
<1>1. /\ IsFiniteSet(items)
      /\ \A i \in items : Weight(i) \in Nat \ {0} /\ i.sentiment \in -100 .. 100
  BY ScoredHeadlines
<1>2. News(n) = IF ~n.installed THEN NotOk("not_active")
                  ELSE IF Cardinality(items) < Rules.news.minItems THEN NotOk("insufficient_data")
                  ELSE Ok(score, confidence)
  BY DEF News
<1>3. Rules.news.minItems \in Nat \ {0}
  BY DEF NewsRules
<1>4. Cardinality(items) \in Nat
  BY <1>1, FS_CardinalityType
<1> HIDE DEF score, confidence
<1> SUFFICES ASSUME ~(Cardinality(items) < Rules.news.minItems)
             PROVE  Ok(score, confidence).status # "failed"
  BY <1>2, NothingFailed
<1>5. Cardinality(items) \in Nat \ {0}
  BY <1>3, <1>4
<1>6. items # {}
  BY <1>5, FS_EmptySet
<1>7. total = On(w, items) /\ tone = On(t, items)
  BY SumIsOn
<1>8. \A i \in items : w[i] = Weight(i) /\ t[i] = Weight(i) * i.sentiment
  OBVIOUS
<1> HIDE DEF w, t, total, tone
<1>9. total \in Nat \ {0}
  <2>1. \A i \in items : w[i] \in Int /\ 1 <= w[i] /\ w[i] <= w[i]
    BY <1>1, <1>8
  <2>2. \A i \in items : w[i] \in Nat
    BY <1>1, <1>8
  <2>3. PICK i \in items : TRUE
    BY <1>6
  <2>4. {i} \in SUBSET items /\ IsFiniteSet({i})
    BY FS_Singleton
  <2>5. On(w, {i}) = w[i]
    BY <2>1, <2>4, SumTypes
  <2>6. On(w, items) \in Nat /\ On(w, {i}) <= On(w, items)
    BY <1>1, <2>2, <2>4, SumWithout
  <2> QED
    BY <1>7, <2>1, <2>5, <2>6
<1>10. tone \in Int /\ -100 * total <= tone /\ tone <= 100 * total
  <2>0. PICK k \in Int : k = -100
    OBVIOUS
  <2> DEFINE hi == [i \in items |-> 100 * w[i]]
             lo == [i \in items |-> k * w[i]]
  <2>1. \A i \in items : w[i] \in Nat
    BY <1>1, <1>8
  <2>2. \A i \in items : /\ t[i] \in Int /\ hi[i] \in Int /\ lo[i] \in Int
                         /\ lo[i] <= t[i] /\ t[i] <= hi[i]
    <3>1. \A x \in Nat, y \in -100 .. 100 : x * y \in Int /\ x * y <= 100 * x /\ -100 * x <= x * y
      OBVIOUS
    <3>2. ASSUME NEW i \in items
          PROVE  /\ t[i] \in Int /\ hi[i] \in Int /\ lo[i] \in Int
                 /\ lo[i] <= t[i] /\ t[i] <= hi[i]
      <4> DEFINE x == Weight(i)
                 y == i.sentiment
      <4>1. x \in Nat /\ y \in -100 .. 100
        BY <1>1
      <4>2. w[i] = x /\ t[i] = x * y
        BY <1>8
      <4> HIDE DEF x, y
      <4>3. hi[i] = 100 * x /\ lo[i] = k * x
        BY <4>2
      <4>4. x * y \in Int /\ x * y <= 100 * x /\ k * x <= x * y
        BY <2>0, <3>1, <4>1
      <4>5. 100 * x \in Int /\ k * x \in Int
        BY <4>1
      <4> HIDE DEF hi, lo
      <4> QED
        BY <4>2, <4>3, <4>4, <4>5
    <3> QED
      BY <3>2
  <2>3. On(hi, items) = 100 * On(w, items) /\ On(lo, items) = k * On(w, items)
    <3>1. \A i \in items : w[i] \in Int
      BY <2>1
    <3> QED
      BY <1>1, <3>1, SumScaled
  <2> HIDE DEF hi, lo
  <2>4. On(t, items) \in Int /\ On(t, items) <= On(hi, items)
    BY <1>1, <2>2, SumOrder
  <2>5. On(lo, items) <= On(t, items)
    BY <1>1, <2>2, SumOrder
  <2> QED
    BY <1>7, <1>9, <2>0, <2>3, <2>4, <2>5
<1>11. score \in Scores
  BY <1>9, <1>10, MeanScore DEF score
<1>12. sure \in 0 .. 100
  <2> DEFINE a == Agreement(NewsSignals(items))
             c == Least(10, Cardinality(items))
  <2>1. a \in 0 .. 100
    BY <1>6, NewsSignalsAreSignals, AgreementIsAShare
  <2>2. c \in 0 .. 10
    BY <1>4 DEF Least
  <2> HIDE DEF a, c
  <2> DEFINE m == a * c
  <2>3. m \in Nat /\ m <= 1000
    BY <2>1, <2>2, SMTT(30)
  <2> HIDE DEF m
  <2>4. m \div 10 \in 0 .. 100
    BY <2>3
  <2> QED
    BY <2>4 DEF m, a, c
<1> HIDE DEF sure
<1>13. half \in 0 .. 100
  BY <1>12
<1> HIDE DEF half
<1>14. confidence \in 0 .. 100
  BY <1>12, <1>13 DEF confidence
<1> QED
  BY <1>11, <1>14, NothingFailed

\* A discounted cash flow.

LEMMA NaturalsByOne ==
    ASSUME NEW T, 0 \in T, \A k \in Nat : k \in T => k + 1 \in T
    PROVE  Nat \subseteq T
<1> DEFINE Bad == {k \in Nat : k \notin T}
<1> SUFFICES ASSUME Bad # {} PROVE FALSE
  OBVIOUS
<1>1. PICK m \in Bad : \A i \in Bad : m <= i
  BY LeastOfNaturals
<1>2. m # 0 /\ m \in Nat /\ m \notin T
  OBVIOUS
<1>3. m - 1 \in Nat /\ (m - 1) + 1 = m
  BY <1>2
<1>4. m - 1 \notin T
  BY <1>2, <1>3
<1>5. m - 1 \in Bad
  BY <1>3, <1>4
<1> QED
  BY <1>1, <1>2, <1>3, <1>5

IsCompound(it, base, rate, unit, n) ==
    it = [t \in 0 .. n |-> IF t = 0 THEN base ELSE (it[t - 1] * (unit + rate)) \div unit]

LEMMA CompoundExists ==
    ASSUME NEW base, NEW rate, NEW unit, NEW n \in Nat
    PROVE  \E it : IsCompound(it, base, rate, unit, n)
<1> DEFINE T == {k \in Nat : \E it : IsCompound(it, base, rate, unit, k)}
           next(x) == (x * (unit + rate)) \div unit
<1>1. 0 \in T
  <2> DEFINE it == [t \in 0 .. 0 |-> base]
  <2>1. it = [t \in 0 .. 0 |-> IF t = 0 THEN base ELSE next(it[t - 1])]
    OBVIOUS
  <2>2. IsCompound(it, base, rate, unit, 0)
    BY <2>1 DEF IsCompound
  <2> HIDE DEF it
  <2> QED
    BY <2>2
<1>2. ASSUME NEW k \in Nat, k \in T PROVE k + 1 \in T
  <2>1. PICK it : IsCompound(it, base, rate, unit, k)
    BY <1>2
  <2>2. it = [t \in 0 .. k |-> IF t = 0 THEN base ELSE next(it[t - 1])]
    BY <2>1 DEF IsCompound
  <2> HIDE DEF next
  <2> DEFINE jt == [t \in 0 .. k + 1 |-> IF t = 0 THEN base ELSE next(it[t - 1])]
  <2>3. \A t \in 0 .. k : t \in 0 .. k + 1 /\ jt[t] = it[t]
    BY <2>2
  <2>4. \A t \in 0 .. k + 1 : t # 0 => t - 1 \in 0 .. k
    OBVIOUS
  <2>5. \A t \in 0 .. k + 1 : jt[t] = IF t = 0 THEN base ELSE next(jt[t - 1])
    BY <2>3, <2>4
  <2>6. jt = [t \in 0 .. k + 1 |-> IF t = 0 THEN base ELSE next(jt[t - 1])]
    BY <2>5
  <2> HIDE DEF jt
  <2>7. IsCompound(jt, base, rate, unit, k + 1)
    BY <2>6 DEF IsCompound, next
  <2> QED
    BY <2>7
<1>3. Nat \subseteq T
  <2> HIDE DEF T
  <2> QED
    BY <1>1, <1>2, NaturalsByOne
<1> QED
  BY <1>3

LEMMA CompoundFacts ==
    ASSUME NEW base, NEW rate, NEW unit, Rules.valuation.years \in Nat
    PROVE  /\ Compound(base, rate, unit)[0] = base
           /\ \A k \in Nat : k + 1 \in 0 .. Rules.valuation.years =>
                 Compound(base, rate, unit)[k + 1] =
                    (Compound(base, rate, unit)[k] * (unit + rate)) \div unit
<1> DEFINE n == Rules.valuation.years
           it == Compound(base, rate, unit)
           Is(jt) == jt = [t \in 0 .. n |-> IF t = 0 THEN base
                                            ELSE (jt[t - 1] * (unit + rate)) \div unit]
<1>1. it = CHOOSE jt : Is(jt)
  BY Zenon DEF Compound
<1>2. ASSUME NEW jt PROVE IsCompound(jt, base, rate, unit, n) <=> Is(jt)
  BY Zenon DEF IsCompound
<1>3. PICK jt : IsCompound(jt, base, rate, unit, n)
  BY CompoundExists
<1> HIDE DEF Is, it
<1>4. Is(CHOOSE kt : Is(kt))
  BY <1>2, <1>3
<1>5. IsCompound(it, base, rate, unit, n)
  BY <1>1, <1>2, <1>4
<1> DEFINE next(x) == (x * (unit + rate)) \div unit
<1>6. it = [t \in 0 .. n |-> IF t = 0 THEN base ELSE next(it[t - 1])]
  BY <1>5 DEF IsCompound
<1> HIDE DEF next, n
<1>7. n \in Nat
  BY DEF n
<1>8. it[0] = base
  BY <1>6, <1>7
<1>9. ASSUME NEW k \in Nat, k + 1 \in 0 .. n PROVE it[k + 1] = next(it[k])
  <2>1. k + 1 # 0 /\ (k + 1) - 1 = k
    OBVIOUS
  <2> QED
    BY <1>6, <1>9, <2>1
<1> QED
  BY <1>8, <1>9 DEF it, next, n

\* Compounding at a higher rate is not less, and at no negative rate it does not shrink.
LEMMA CompoundOrder ==
    ASSUME Rules.valuation.years \in Nat, NEW base \in Nat, NEW unit \in Nat \ {0},
           NEW low \in Int, NEW high \in Int, low <= high, unit + low >= 0
    PROVE  \A t \in 0 .. Rules.valuation.years :
              /\ Compound(base, low, unit)[t] \in Nat /\ Compound(base, high, unit)[t] \in Nat
              /\ Compound(base, low, unit)[t] <= Compound(base, high, unit)[t]
              /\ low >= 0 => base <= Compound(base, low, unit)[t]
<1> DEFINE n == Rules.valuation.years
           a == Compound(base, low, unit)
           b == Compound(base, high, unit)
           Good(t) == /\ a[t] \in Nat /\ b[t] \in Nat /\ a[t] <= b[t]
                      /\ low >= 0 => base <= a[t]
           T == {t \in Nat : t \in 0 .. n => Good(t)}
<1>1. /\ a[0] = base /\ b[0] = base
      /\ \A k \in Nat : k + 1 \in 0 .. n => /\ a[k + 1] = (a[k] * (unit + low)) \div unit
                                            /\ b[k + 1] = (b[k] * (unit + high)) \div unit
  BY CompoundFacts
<1> HIDE DEF a, b
<1>2. 0 \in T
  BY <1>1
<1>3. ASSUME NEW k \in Nat, k \in T PROVE k + 1 \in T
  <2> SUFFICES ASSUME k + 1 \in 0 .. n PROVE Good(k + 1)
    OBVIOUS
  <2>1. k \in 0 .. n
    OBVIOUS
  <2>2. Good(k)
    BY <1>3, <2>1
  <2>3. a[k + 1] = (a[k] * (unit + low)) \div unit /\ b[k + 1] = (b[k] * (unit + high)) \div unit
    BY <1>1
  <2> DEFINE x == a[k]
             y == b[k]
             u == unit + low
             v == unit + high
             xu == x * u
             yv == y * v
  <2>4. x \in Nat /\ y \in Nat /\ x <= y /\ u \in Nat /\ v \in Nat /\ u <= v
    BY <2>2
  <2>5. a[k + 1] = xu \div unit /\ b[k + 1] = yv \div unit
    BY <2>3
  <2>6. low >= 0 => unit <= u /\ base <= x
    BY <2>2
  <2> HIDE DEF x, y, u, v
  <2>7. xu \in Nat /\ yv \in Nat /\ xu <= yv
    <3>1. x * u <= y * u /\ y * u <= y * v
      BY <2>4, ProductKeepsOrder
    <3> QED
      BY <2>4, <3>1
  <2>8. low >= 0 => x * unit <= xu
    BY <2>4, <2>6, ProductKeepsOrder
  <2> HIDE DEF xu, yv
  <2>9. xu \div unit \in Int /\ yv \div unit \in Int /\ xu \div unit <= yv \div unit
    BY <2>7, DivisionKeepsOrder
  <2>10. xu \div unit >= 0 /\ yv \div unit >= 0
    BY <2>7
  <2>11. low >= 0 => x <= xu \div unit
    <3> SUFFICES ASSUME low >= 0 PROVE x <= xu \div unit
      OBVIOUS
    <3>1. xu \in Int /\ x * unit <= xu /\ x \in Int
      BY <2>4, <2>7, <2>8
    <3> DEFINE q == xu \div unit
    <3>2. q \in Int /\ xu < q * unit + unit
      BY <2>7
    <3> HIDE DEF q
    <3>3. ASSUME q < x PROVE FALSE
      <4>1. (q + 1) * unit <= x * unit
        BY <2>4, <3>2, <3>3
      <4>2. (q + 1) * unit = q * unit + unit
        BY <3>2
      <4> QED
        BY <3>1, <3>2, <4>1, <4>2
    <3>4. x <= q
      BY <3>1, <3>2, <3>3
    <3> QED
      BY <3>4 DEF q
  <2> DEFINE q == xu \div unit
             r == yv \div unit
  <2>12. a[k + 1] = q /\ b[k + 1] = r
    BY <2>5
  <2>13. q \in Int /\ r \in Int /\ q <= r /\ q >= 0 /\ r >= 0 /\ (low >= 0 => x <= q)
    BY <2>9, <2>10, <2>11
  <2> HIDE DEF q, r
  <2> QED
    BY <2>4, <2>6, <2>12, <2>13
<1>4. Nat \subseteq T
  <2> HIDE DEF T
  <2> QED
    BY <1>2, <1>3, NaturalsByOne
<1>5. \A t \in 0 .. n : Good(t)
  BY <1>4
<1> QED
  BY <1>5 DEF a, b

LEMMA QuotientOrder ==
    ASSUME NEW x \in Nat, NEW y \in Nat, x <= y, NEW m \in Nat \ {0}, NEW n \in Nat \ {0}, n <= m
    PROVE  x \div m \in Nat /\ y \div n \in Nat /\ x \div m <= y \div n
<1> DEFINE q == x \div m
           r == y \div n
<1>1. q \in Int /\ r \in Int /\ q >= 0 /\ r >= 0 /\ q * m <= x /\ y < r * n + n
  OBVIOUS
<1> HIDE DEF q, r
<1>2. q * n <= q * m
  BY <1>1, ProductKeepsOrder
<1>3. ASSUME r < q PROVE FALSE
  <2>1. (r + 1) * n <= q * n
    BY <1>1, <1>3
  <2>2. (r + 1) * n = r * n + n
    BY <1>1
  <2>3. q * n \in Int /\ q * m \in Int /\ r * n \in Int
    BY <1>1
  <2> QED
    BY <1>1, <1>2, <2>1, <2>2, <2>3
<1>4. q \in Nat /\ r \in Nat /\ q <= r
  BY <1>1, <1>3
<1> QED
  BY <1>4 DEF q, r

\* A valuation's assumptions within bounds, and those of a brighter one.
Sound(a) == /\ a.revenue \in Nat /\ a.debt \in Nat /\ a.cash \in Nat /\ a.shares \in Nat \ {0}
            /\ a.growth \in Int /\ 100 + a.growth >= 0 /\ a.margin \in Nat
            /\ a.wacc \in Int /\ a.terminal \in Nat /\ a.wacc > a.terminal

Brighter(b, a) == /\ b.revenue = a.revenue /\ b.debt = a.debt /\ b.cash = a.cash
                  /\ b.shares = a.shares /\ a.growth <= b.growth /\ a.margin <= b.margin
                  /\ b.wacc <= a.wacc /\ a.terminal <= b.terminal

FlowAt(a, t) == (Revenues(a)[t] * a.margin) \div 100
PresentAt(a, x, t) == (1000 * x) \div Discounts(a)[t]
EndOf(a) == (FlowAt(a, Rules.valuation.years) * (1000 + a.terminal)) \div (a.wacc - a.terminal)

\* Year by year the brighter scenario is worth at least as much.
LEMMA FlowOrder ==
    ASSUME Rules.valuation.years \in Nat, NEW a, NEW b, Sound(a), Sound(b), Brighter(b, a),
           NEW t \in 0 .. Rules.valuation.years
    PROVE  /\ FlowAt(a, t) \in Nat /\ FlowAt(b, t) \in Nat /\ FlowAt(a, t) <= FlowAt(b, t)
           /\ Discounts(a)[t] \in Nat \ {0} /\ Discounts(b)[t] \in Nat \ {0}
           /\ Discounts(b)[t] <= Discounts(a)[t]
<1> DEFINE x == Revenues(a)[t]
           y == Revenues(b)[t]
           d == Discounts(a)[t]
           e == Discounts(b)[t]
<1>1. x \in Nat /\ y \in Nat /\ x <= y
  <2> DEFINE base == a.revenue
             low == a.growth
             high == b.growth
  <2>1. Revenues(a) = Compound(base, low, 100) /\ Revenues(b) = Compound(base, high, 100)
    BY DEF Revenues, Brighter
  <2>2. base \in Nat /\ low \in Int /\ high \in Int /\ low <= high /\ 100 + low >= 0
    BY DEF Sound, Brighter
  <2> HIDE DEF base, low, high
  <2>3. /\ Compound(base, low, 100)[t] \in Nat /\ Compound(base, high, 100)[t] \in Nat
        /\ Compound(base, low, 100)[t] <= Compound(base, high, 100)[t]
    BY <2>2, CompoundOrder
  <2> QED
    BY <2>1, <2>3
<1>2. d \in Nat \ {0} /\ e \in Nat \ {0} /\ e <= d
  <2> DEFINE low == b.wacc
             high == a.wacc
  <2>1. Discounts(a) = Compound(1000, high, 1000) /\ Discounts(b) = Compound(1000, low, 1000)
    BY DEF Discounts
  <2>2. low \in Int /\ high \in Int /\ low <= high /\ low >= 0 /\ high >= 0
    BY DEF Sound, Brighter
  <2> HIDE DEF low, high
  <2>3. 1000 + low >= 0
    BY <2>2
  <2>4. /\ Compound(1000, low, 1000)[t] \in Nat /\ Compound(1000, high, 1000)[t] \in Nat
        /\ Compound(1000, low, 1000)[t] <= Compound(1000, high, 1000)[t]
        /\ 1000 <= Compound(1000, low, 1000)[t]
    BY <2>2, <2>3, CompoundOrder
  <2> QED
    BY <2>1, <2>4
<1> DEFINE xm == x * a.margin
           yk == y * b.margin
<1>3. xm \in Nat /\ yk \in Nat /\ xm <= yk
  <2> DEFINE m == a.margin
             k == b.margin
  <2>1. m \in Nat /\ k \in Nat /\ m <= k
    BY DEF Sound, Brighter
  <2> HIDE DEF x, y, m, k
  <2>2. x * m <= x * k
    BY <1>1, <2>1, ProductKeepsOrder
  <2>3. k * x <= k * y
    BY <1>1, <2>1, ProductKeepsOrder
  <2>4. x * m \in Nat /\ x * k \in Nat /\ y * k \in Nat /\ k * x = x * k /\ k * y = y * k
    BY <1>1, <2>1
  <2>5. x * m <= y * k
    BY <2>2, <2>3, <2>4
  <2> QED
    BY <2>4, <2>5 DEF m, k
<1>4. FlowAt(a, t) = xm \div 100 /\ FlowAt(b, t) = yk \div 100
  BY DEF FlowAt
<1> HIDE DEF xm, yk
<1>5. xm \div 100 \in Nat /\ yk \div 100 \in Nat /\ xm \div 100 <= yk \div 100
  BY <1>3, QuotientOrder
<1> QED
  BY <1>2, <1>4, <1>5

LEMMA PresentOrder ==
    ASSUME Rules.valuation.years \in Nat, NEW a, NEW b, Sound(a), Sound(b), Brighter(b, a),
           NEW t \in 0 .. Rules.valuation.years, NEW x \in Nat, NEW y \in Nat, x <= y
    PROVE  /\ PresentAt(a, x, t) \in Nat /\ PresentAt(b, y, t) \in Nat
           /\ PresentAt(a, x, t) <= PresentAt(b, y, t)
<1> DEFINE d == Discounts(a)[t]
           e == Discounts(b)[t]
           u == 1000 * x
           v == 1000 * y
<1>1. d \in Nat \ {0} /\ e \in Nat \ {0} /\ e <= d
  BY FlowOrder
<1>2. u \in Nat /\ v \in Nat /\ u <= v
  OBVIOUS
<1>3. PresentAt(a, x, t) = u \div d /\ PresentAt(b, y, t) = v \div e
  BY DEF PresentAt
<1> HIDE DEF d, e, u, v
<1>4. u \div d \in Nat /\ v \div e \in Nat /\ u \div d <= v \div e
  BY <1>1, <1>2, QuotientOrder
<1> QED
  BY <1>3, <1>4

LEMMA EndOrder ==
    ASSUME Rules.valuation.years \in Nat, NEW a, NEW b, Sound(a), Sound(b), Brighter(b, a)
    PROVE  EndOf(a) \in Nat /\ EndOf(b) \in Nat /\ EndOf(a) <= EndOf(b)
<1> DEFINE n == Rules.valuation.years
           x == FlowAt(a, n)
           y == FlowAt(b, n)
           g == 1000 + a.terminal
           h == 1000 + b.terminal
           d == a.wacc - a.terminal
           e == b.wacc - b.terminal
           xg == x * g
           yh == y * h
<1>1. x \in Nat /\ y \in Nat /\ x <= y
  BY FlowOrder
<1>2. /\ g \in Nat /\ h \in Nat /\ g <= h
      /\ d \in Nat \ {0} /\ e \in Nat \ {0} /\ e <= d
  BY DEF Sound, Brighter
<1>3. EndOf(a) = xg \div d /\ EndOf(b) = yh \div e
  BY DEF EndOf
<1> HIDE DEF x, y, g, h, d, e
<1>4. xg \in Nat /\ yh \in Nat /\ xg <= yh
  <2>1. x * g <= x * h
    BY <1>1, <1>2, ProductKeepsOrder
  <2>2. h * x <= h * y
    BY <1>1, <1>2, ProductKeepsOrder
  <2>3. x * g \in Nat /\ x * h \in Nat /\ y * h \in Nat /\ h * x = x * h /\ h * y = y * h
    BY <1>1, <1>2
  <2> QED
    BY <2>1, <2>2, <2>3
<1> HIDE DEF xg, yh
<1>5. xg \div d \in Nat /\ yh \div e \in Nat /\ xg \div d <= yh \div e
  BY <1>2, <1>4, QuotientOrder
<1> QED
  BY <1>3, <1>5

\* A brighter scenario is worth at least as much per share.
LEMMA PerShareOrder ==
    ASSUME Rules.valuation.years \in Nat \ {0}, NEW a, NEW b, Sound(a), Sound(b), Brighter(b, a)
    PROVE  PerShare(a) \in Int /\ PerShare(b) \in Int /\ PerShare(a) <= PerShare(b)
<1> DEFINE n == Rules.valuation.years
           f == [t \in 1 .. n |-> PresentAt(a, FlowAt(a, t), t)]
           g == [t \in 1 .. n |-> PresentAt(b, FlowAt(b, t), t)]
           x == On(f, 1 .. n)
           y == On(g, 1 .. n)
           u == PresentAt(a, EndOf(a), n)
           v == PresentAt(b, EndOf(b), n)
<1>0. n \in Nat /\ n \in 0 .. n
  OBVIOUS
<1>1. \A t \in 1 .. n : f[t] \in Int /\ g[t] \in Int /\ f[t] <= g[t]
  <2> SUFFICES ASSUME NEW t \in 1 .. n PROVE f[t] \in Int /\ g[t] \in Int /\ f[t] <= g[t]
    OBVIOUS
  <2>1. t \in 0 .. n
    OBVIOUS
  <2>2. FlowAt(a, t) \in Nat /\ FlowAt(b, t) \in Nat /\ FlowAt(a, t) <= FlowAt(b, t)
    BY <1>0, <2>1, FlowOrder
  <2>3. /\ PresentAt(a, FlowAt(a, t), t) \in Nat /\ PresentAt(b, FlowAt(b, t), t) \in Nat
        /\ PresentAt(a, FlowAt(a, t), t) <= PresentAt(b, FlowAt(b, t), t)
    BY <1>0, <2>1, <2>2, PresentOrder
  <2> QED
    BY <2>3
<1>2. x \in Int /\ y \in Int /\ x <= y
  <2>1. IsFiniteSet(1 .. n)
    BY <1>0, FS_Interval
  <2> HIDE DEF f, g
  <2> QED
    BY <1>1, <2>1, SumOrder
<1>3. u \in Nat /\ v \in Nat /\ u <= v
  <2>1. EndOf(a) \in Nat /\ EndOf(b) \in Nat /\ EndOf(a) <= EndOf(b)
    BY <1>0, EndOrder
  <2> QED
    BY <1>0, <2>1, PresentOrder
<1>4. SumFunction(f) = x /\ SumFunction(g) = y
  <2>1. DOMAIN f = 1 .. n /\ DOMAIN g = 1 .. n
    OBVIOUS
  <2> HIDE DEF f, g
  <2> QED
    BY <2>1, SumIsOn
<1>5. /\ PerShare(a) = ((SumFunction(f) + u) - a.debt + a.cash) \div a.shares
      /\ PerShare(b) = ((SumFunction(g) + v) - b.debt + b.cash) \div b.shares
  BY Zenon DEF PerShare, FlowAt, PresentAt, EndOf
<1> DEFINE s == (x + u) - a.debt + a.cash
           t == (y + v) - b.debt + b.cash
<1> HIDE DEF x, y, u, v, f, g
<1>6. s \in Int /\ t \in Int /\ s <= t /\ a.shares \in Nat \ {0} /\ b.shares = a.shares
  BY <1>2, <1>3 DEF Sound, Brighter
<1>7. PerShare(a) = s \div a.shares /\ PerShare(b) = t \div b.shares
  BY <1>4, <1>5
<1> HIDE DEF s, t
<1> QED
  BY <1>6, <1>7, DivisionKeepsOrder

LEMMA ValuationThresholds ==
    ASSUME ValuationRules(Rules.valuation)
    PROVE  LET r == Rules.valuation IN
           /\ r.riskFree \in Nat /\ r.equityPremium \in Nat /\ r.years \in Nat \ {0}
           /\ r.beta.low \in Nat /\ r.beta.high \in Nat /\ r.waccSpread \in Nat
           /\ r.terminal["bear"] \in Nat /\ r.terminal["base"] \in Nat /\ r.terminal["bull"] \in Nat
           /\ r.terminal["bear"] <= r.terminal["base"] /\ r.terminal["base"] <= r.terminal["bull"]
           /\ r.minGrowth \in Int /\ r.maxGrowth \in Int /\ r.minGrowth <= r.maxGrowth
           /\ 100 + r.minGrowth >= 0 /\ r.growthSpread \in Nat /\ r.mosScale \in Nat \ {0}
<1> DEFINE r == Rules.valuation
<1>1. /\ r.riskFree \in 1 .. 299 /\ r.equityPremium \in 1 .. 199 /\ r.years \in 3 .. 15
      /\ r.beta.low \in Nat \ {0} /\ r.beta.high \in Nat \ {0} /\ r.waccSpread \in 0 .. 99
      /\ r.terminal.bear \in 0 .. r.terminal.base /\ r.terminal.base \in 0 .. r.terminal.bull
      /\ r.terminal.bull \in 0 .. 149
      /\ r.minGrowth \in -49 .. -1 /\ r.maxGrowth \in 1 .. 99 /\ r.mosScale \in 1 .. 200
      /\ r.growthSpread \in 0 .. 49
  BY DEF ValuationRules, Positive
<1> HIDE DEF r
<1>2. /\ r.minGrowth \in Int /\ r.maxGrowth \in Int /\ r.minGrowth <= r.maxGrowth
      /\ 100 + r.minGrowth >= 0 /\ r.growthSpread \in Nat /\ r.mosScale \in Nat \ {0}
  BY <1>1
<1>3. r.terminal.bull \in Nat /\ r.terminal.base \in Nat /\ r.terminal.base <= r.terminal.bull
  BY <1>1
<1>4. r.terminal.bear \in Nat /\ r.terminal.bear <= r.terminal.base
  BY <1>1, <1>3
<1>5. /\ r.riskFree \in Nat /\ r.equityPremium \in Nat /\ r.years \in Nat \ {0}
      /\ r.beta.low \in Nat /\ r.beta.high \in Nat /\ r.waccSpread \in Nat
  BY <1>1
<1> QED
  BY <1>2, <1>3, <1>4, <1>5 DEF r

LEMMA CostIsInt ==
    ASSUME ValuationRules(Rules.valuation), NEW v, Typed("valuation", v), v.price # None
    PROVE  CostOfCapital(v) \in Int
<1> DEFINE r == Rules.valuation
           asked == IF Known(v.beta) THEN v.beta ELSE 100
           beta == Between(asked, r.beta.low, r.beta.high)
           premium == (beta * r.equityPremium) \div 100
           equity == r.riskFree + premium
           paid == (1000 * v.interest) \div v.debt
           lent == IF v.debt > 0 /\ v.interest > 0 THEN Most(r.riskFree, paid) ELSE r.riskFree
           debt == (lent * (100 - v.tax)) \div 100
           value == v.price * v.shares
           total == value * equity + v.debt * debt
<1>1. /\ r.riskFree \in Nat /\ r.equityPremium \in Nat /\ r.beta.low \in Nat /\ r.beta.high \in Nat
  BY ValuationThresholds
<1>2. /\ v.price \in Nat \ {0} /\ v.shares \in Nat /\ v.debt \in Nat /\ v.interest \in Nat
      /\ v.tax \in 0 .. 100 /\ v.beta \in Maybe(Int)
  BY ValuationFacts DEF Maybe, Positive
<1>3. CostOfCapital(v) = IF value + v.debt = 0 THEN equity ELSE total \div (value + v.debt)
  BY DEF CostOfCapital
<1> HIDE DEF r
<1>4. beta \in Int
  <2>1. asked \in Int
    BY <1>2, KnownFacts
  <2> HIDE DEF asked
  <2> QED
    BY <1>1, <2>1 DEF Between, Least, Most
<1>5. equity \in Int
  <2>1. beta * r.equityPremium \in Int
    BY <1>1, <1>4
  <2>2. premium \in Int
    BY <2>1, QuotientIsInt
  <2> HIDE DEF premium
  <2> QED
    BY <1>1, <2>2
<1>6. lent \in Int
  <2>1. v.debt > 0 => paid \in Int
    <3>1. v.debt > 0 => v.debt \in Nat \ {0} /\ 1000 * v.interest \in Int
      BY <1>2
    <3> QED
      BY <3>1, QuotientIsInt
  <2> HIDE DEF paid
  <2> QED
    BY <1>1, <2>1 DEF Most
<1>7. debt \in Int
  <2> HIDE DEF lent
  <2>1. lent * (100 - v.tax) \in Int
    BY <1>2, <1>6
  <2> QED
    BY <2>1, QuotientIsInt
<1>8. value \in Nat
  BY <1>2
<1> HIDE DEF equity, debt, value
<1>9. total \in Int /\ value + v.debt \in Nat
  BY <1>2, <1>5, <1>7, <1>8
<1> HIDE DEF total
<1>10. value + v.debt # 0 => total \div (value + v.debt) \in Int
  BY <1>9, QuotientIsInt
<1> QED
  BY <1>3, <1>5, <1>10

LEMMA GrowthInRange ==
    ASSUME ValuationRules(Rules.valuation), NEW s, Growth(s) # None
    PROVE  Growth(s) \in Rules.valuation.minGrowth .. Rules.valuation.maxGrowth
<1> DEFINE lo == Rules.valuation.minGrowth
           hi == Rules.valuation.maxGrowth
           k == Len(s) - 1
           reached == {g \in lo .. hi : s[1] * (100 + g)^k <= Last(s) * 100^k}
           top == CHOOSE g \in reached : \A o \in reached : o <= g
<1>1. lo \in Int /\ hi \in Int /\ lo <= hi
  BY ValuationThresholds
<1>2. Growth(s) = IF reached = {} THEN lo ELSE top
  BY DEF Growth
<1>3. reached \subseteq lo .. hi
  OBVIOUS
<1> HIDE DEF reached, lo, hi
<1>4. IsFiniteSet(reached) /\ reached \subseteq Int
  <2>1. IsFiniteSet(lo .. hi)
    BY <1>1, FS_Interval
  <2>2. IsFiniteSet(reached)
    BY <1>3, <2>1, FS_Subset
  <2>3. lo .. hi \subseteq Int
    BY <1>1
  <2> QED
    BY <1>3, <2>2, <2>3
<1>5. ASSUME reached # {} PROVE top \in reached
  <2>1. Max(reached) \in reached /\ \A y \in reached : y <= Max(reached)
    BY <1>4, <1>5, GreatestAndLeast
  <2>2. \E g \in reached : \A o \in reached : o <= g
    BY <2>1
  <2> QED
    BY <2>2, Zenon
<1> HIDE DEF top
<1>6. lo \in lo .. hi
  BY <1>1
<1>7. Growth(s) \in lo .. hi
  <2>1. CASE reached = {}
    BY <1>2, <1>6, <2>1
  <2>2. CASE reached # {}
    BY <1>2, <1>3, <1>5, <2>2
  <2> QED
    BY <2>1, <2>2
<1> QED
  BY <1>7 DEF lo, hi

LEMMA ClipOrder ==
    ASSUME ValuationRules(Rules.valuation), NEW x \in Int, NEW y \in Int, x <= y
    PROVE  /\ Clip(x) \in Int /\ Clip(y) \in Int /\ Clip(x) <= Clip(y)
           /\ 100 + Clip(x) >= 0
BY ValuationThresholds DEF Clip, Between, Least, Most

\* The mean of the margins lies between the least and the greatest.
LEMMA MarginOrder ==
    ASSUME NEW s \in Seq(Int), s # <<>>, \A m \in ToSet(s) : m > 0
    PROVE  /\ Min(ToSet(s)) \in Nat /\ Mean(s) \in Nat /\ Max(ToSet(s)) \in Nat
           /\ Min(ToSet(s)) <= Mean(s) /\ Mean(s) <= Max(ToSet(s))
<1> DEFINE S == ToSet(s)
           lo == Min(S)
           hi == Max(S)
           n == Len(s)
           sum == SumFunction(s)
<1>1. n \in Nat \ {0} /\ DOMAIN s = 1 .. n /\ \A i \in 1 .. n : s[i] \in Int
  <2>1. n \in Nat /\ DOMAIN s = 1 .. n /\ \A i \in 1 .. n : s[i] \in Int
    OBVIOUS
  <2>2. n # 0
    <3> SUFFICES ASSUME n = 0 PROVE FALSE
      OBVIOUS
    <3> QED
      OBVIOUS
  <2> QED
    BY <2>1, <2>2
<1>2. S = {s[i] : i \in 1 .. n}
  BY <1>1 DEF ToSet
<1>3. IsFiniteSet(1 .. n) /\ Cardinality(1 .. n) = n
  BY <1>1, FS_Interval
<1>4. IsFiniteSet(S) /\ S # {} /\ S \subseteq Int
  <2>1. IsFiniteSet({s[i] : i \in 1 .. n})
    BY <1>3, ImageIsNoLarger
  <2>2. 1 \in 1 .. n
    BY <1>1
  <2> QED
    BY <1>1, <1>2, <2>1, <2>2
<1> HIDE DEF S
<1>5. lo \in S /\ hi \in S /\ \A y \in S : lo <= y /\ y <= hi
  BY <1>4, GreatestAndLeast
<1>6. lo > 0 /\ hi > 0 /\ lo \in Int /\ hi \in Int
  BY <1>4, <1>5 DEF S
<1> HIDE DEF lo, hi, n
<1>7. \A i \in 1 .. n : s[i] \in Int /\ lo <= s[i] /\ s[i] <= hi
  BY <1>1, <1>2, <1>5
<1>8. sum = On(s, 1 .. n)
  BY <1>1, SumIsOn
<1> HIDE DEF sum
<1>9. sum \in Int /\ lo * n <= sum /\ sum <= hi * n
  BY <1>3, <1>6, <1>7, <1>8, SumWithin
<1> DEFINE mean == sum \div n
<1>10. mean \in lo .. hi
  BY <1>1, <1>6, <1>9, DivisionWithin
<1>11. Mean(s) = mean
  BY DEF Mean, sum, n
<1> HIDE DEF mean
<1> QED
  BY <1>6, <1>10, <1>11 DEF lo, hi, S

\* A valuation that computes a discounted cash flow of positive margins.
Works(v) == /\ Typed("valuation", v) /\ v.price # None /\ Computed(v)
            /\ \A m \in ToSet(v.margins) : m > 0

LEMMA AssumedOrder ==
    ASSUME ValuationRules(Rules.valuation), NEW v, Works(v)
    PROVE  /\ \A n \in {"bear", "base", "bull"} :
                 DcfValid(Assumed(v, n)) => Sound(Assumed(v, n))
           /\ Brighter(Assumed(v, "base"), Assumed(v, "bear"))
           /\ Brighter(Assumed(v, "bull"), Assumed(v, "base"))
           /\ Brighter(Assumed(v, "bull"), Assumed(v, "bear"))
<1> DEFINE r == Rules.valuation
           margins == ToSet(v.margins)
           least == Min(margins)
           mean == Mean(v.margins)
           most == Max(margins)
           g == Growth(v.revenues)
           cost == CostOfCapital(v)
           side(n) == CASE n = "bear" -> -1 [] n = "base" -> 0 [] n = "bull" -> 1
           margin(n) == CASE n = "bear" -> least [] n = "base" -> mean [] n = "bull" -> most
           growth(n) == Clip(g + side(n) * r.growthSpread)
           wacc(n) == cost - side(n) * r.waccSpread
           last == Last(v.revenues)
<1>1. /\ v.revenues \in Seq(Int) /\ v.margins \in Seq(Int) /\ v.debt \in Nat /\ v.cash \in Nat
      /\ v.shares \in Nat
  BY ValuationFacts DEF Works
<1>2. /\ least \in Nat /\ mean \in Nat /\ most \in Nat /\ least <= mean /\ mean <= most
  BY <1>1, MarginOrder DEF Works, Computed
<1>3. /\ r.waccSpread \in Nat /\ r.growthSpread \in Nat
      /\ r.terminal["bear"] \in Nat /\ r.terminal["base"] \in Nat /\ r.terminal["bull"] \in Nat
      /\ r.terminal["bear"] <= r.terminal["base"] /\ r.terminal["base"] <= r.terminal["bull"]
      /\ r.minGrowth \in Int /\ r.maxGrowth \in Int
  BY ValuationThresholds
<1>4. g \in Int
  <2>1. g \in r.minGrowth .. r.maxGrowth
    BY GrowthInRange DEF Works, Computed
  <2> QED
    BY <1>3, <2>1
<1>5. cost \in Int
  BY CostIsInt DEF Works
<1>6. last \in Int
  <2>1. ~(Len(v.revenues) - 1 < 1)
    BY DEF Works, Computed, Growth
  <2>2. Len(v.revenues) \in DOMAIN v.revenues
    BY <1>1, <2>1
  <2> QED
    BY <1>1, <2>2 DEF Last
<1>7. ASSUME NEW n
      PROVE  LET a == Assumed(v, n) IN
             /\ a.revenue = last /\ a.debt = v.debt /\ a.cash = v.cash /\ a.shares = v.shares
             /\ a.growth = growth(n) /\ a.margin = margin(n) /\ a.wacc = wacc(n)
             /\ a.terminal = r.terminal[n]
  <2>1. Assumed(v, n) = [revenue |-> last, debt |-> v.debt, cash |-> v.cash, shares |-> v.shares,
                           growth |-> growth(n), margin |-> margin(n), wacc |-> wacc(n),
                           terminal |-> r.terminal[n]]
    BY Zenon DEF Assumed
  <2> HIDE DEF growth, margin, wacc, last, r
  <2> QED
    BY <2>1
<1>s. side("bear") = -1 /\ side("base") = 0 /\ side("bull") = 1
  OBVIOUS
<1>m. margin("bear") = least /\ margin("base") = mean /\ margin("bull") = most
  OBVIOUS
<1> HIDE DEF least, mean, most, g, cost, last, margins, r, side, margin
<1>8. /\ wacc("bear") \in Int /\ wacc("base") \in Int /\ wacc("bull") \in Int
      /\ wacc("bull") <= wacc("base") /\ wacc("base") <= wacc("bear")
  BY <1>3, <1>5, <1>s
<1>9. /\ growth("bear") \in Int /\ growth("base") \in Int /\ growth("bull") \in Int
      /\ growth("bear") <= growth("base") /\ growth("base") <= growth("bull")
      /\ 100 + growth("bear") >= 0 /\ 100 + growth("base") >= 0 /\ 100 + growth("bull") >= 0
  <2> DEFINE x == g + side("bear") * r.growthSpread
             y == g + side("base") * r.growthSpread
             z == g + side("bull") * r.growthSpread
  <2>1. x \in Int /\ y \in Int /\ z \in Int /\ x <= y /\ y <= z /\ z <= z
    BY <1>3, <1>4, <1>s
  <2> HIDE DEF x, y, z
  <2>2. /\ Clip(x) \in Int /\ Clip(y) \in Int /\ Clip(x) <= Clip(y)
        /\ 100 + Clip(x) >= 0
    BY <2>1, ClipOrder
  <2>3. /\ Clip(y) \in Int /\ Clip(z) \in Int /\ Clip(y) <= Clip(z)
        /\ 100 + Clip(y) >= 0
    BY <2>1, ClipOrder
  <2>4. 100 + Clip(z) >= 0
    BY <2>3
  <2> QED
    BY <2>2, <2>3, <2>4 DEF x, y, z
<1> HIDE DEF wacc, growth
<1>c. ASSUME NEW n \in {"bear", "base", "bull"}
      PROVE  /\ margin(n) \in Nat /\ wacc(n) \in Int /\ growth(n) \in Int
             /\ 100 + growth(n) >= 0 /\ r.terminal[n] \in Nat
  BY <1>2, <1>3, <1>8, <1>9, <1>m
<1>10. ASSUME NEW n \in {"bear", "base", "bull"}, DcfValid(Assumed(v, n))
       PROVE  Sound(Assumed(v, n))
  <2> DEFINE a == Assumed(v, n)
  <2>1. /\ a.revenue \in Int /\ a.debt \in Nat /\ a.cash \in Nat /\ a.shares \in Nat
        /\ a.growth \in Int /\ 100 + a.growth >= 0 /\ a.margin \in Nat /\ a.wacc \in Int
        /\ a.terminal \in Nat
    BY <1>1, <1>6, <1>7, <1>c
  <2>2. a.wacc > a.terminal /\ a.shares > 0 /\ a.revenue > 0
    BY <1>10 DEF DcfValid
  <2> HIDE DEF a
  <2>3. Sound(a)
    BY <2>1, <2>2 DEF Sound
  <2> QED
    BY <2>3 DEF a
<1>11. /\ Brighter(Assumed(v, "base"), Assumed(v, "bear"))
       /\ Brighter(Assumed(v, "bull"), Assumed(v, "base"))
  BY <1>2, <1>3, <1>7, <1>8, <1>9, <1>m DEF Brighter
<1>12. Brighter(Assumed(v, "bull"), Assumed(v, "bear"))
  BY <1>2, <1>3, <1>7, <1>8, <1>9, <1>m DEF Brighter
<1> QED
  BY <1>10, <1>11, <1>12

\* The scenarios that were computed are in order.
LEMMA ScenarioOrder ==
    ASSUME ValuationRules(Rules.valuation), NEW v, Works(v)
    PROVE  LET s == Scenarios(v) IN
           /\ \A n \in DOMAIN s : s[n] \in Int
           /\ {"bear", "base"} \subseteq DOMAIN s => s["bear"] <= s["base"]
           /\ {"base", "bull"} \subseteq DOMAIN s => s["base"] <= s["bull"]
           /\ {"bear", "bull"} \subseteq DOMAIN s => s["bear"] <= s["bull"]
<1> DEFINE s == Scenarios(v)
           worth(n) == PerShare(Assumed(v, n))
<1>1. Rules.valuation.years \in Nat \ {0}
  BY ValuationThresholds
<1>2. /\ DOMAIN s \subseteq {"bear", "base", "bull"}
      /\ \A n \in DOMAIN s : DcfValid(Assumed(v, n)) /\ s[n] = worth(n)
  BY DEF Scenarios
<1> HIDE DEF s
<1>3. \A n \in DOMAIN s : Sound(Assumed(v, n))
  BY <1>2, AssumedOrder
<1>4. ASSUME NEW m \in DOMAIN s, NEW n \in DOMAIN s, Brighter(Assumed(v, n), Assumed(v, m))
      PROVE  s[m] <= s[n]
  <2>1. worth(m) <= worth(n)
    BY <1>1, <1>3, <1>4, PerShareOrder
  <2> HIDE DEF worth
  <2> QED
    BY <1>2, <2>1
<1>5. ASSUME NEW n \in DOMAIN s PROVE s[n] \in Int
  <2>1. Brighter(Assumed(v, n), Assumed(v, n))
    BY <1>3 DEF Brighter, Sound
  <2>2. worth(n) \in Int
    BY <1>1, <1>3, <2>1, PerShareOrder
  <2> HIDE DEF worth
  <2> QED
    BY <1>2, <2>2
<1>6. {"bear", "base"} \subseteq DOMAIN s => s["bear"] <= s["base"]
  BY <1>4, AssumedOrder
<1>7. {"base", "bull"} \subseteq DOMAIN s => s["base"] <= s["bull"]
  BY <1>4, AssumedOrder
<1>8. {"bear", "bull"} \subseteq DOMAIN s => s["bear"] <= s["bull"]
  BY <1>4, AssumedOrder
<1> QED
  BY <1>5, <1>6, <1>7, <1>8 DEF s

LEMMA SquashedWithin ==
    ASSUME ValuationRules(Rules.valuation), NEW x \in Int
    PROVE  /\ Squashed(x) \in -100 .. 100
           /\ x <= 0 => Squashed(x) <= 0
           /\ x >= 0 => Squashed(x) >= 0
<1> DEFINE n == Rules.valuation.mosScale + Size(x)
           q == (100 * x) \div n
<1>1. Rules.valuation.mosScale \in Nat \ {0} /\ Size(x) \in Nat /\ -Size(x) <= x /\ x <= Size(x)
  BY ValuationThresholds DEF Size
<1>2. n \in Nat \ {0} /\ -n <= x /\ x <= n
  BY <1>1
<1>3. Squashed(x) = q
  BY DEF Squashed
<1> HIDE DEF n
<1>4. PICK lo \in Int : lo = -100
  OBVIOUS
<1>5. q \in lo .. 100
  <2>1. 100 * x \in Int /\ lo * n <= 100 * x /\ 100 * x <= 100 * n
    BY <1>2, <1>4
  <2> QED
    BY <1>2, <2>1, DivisionWithin
<1>6. x <= 0 => q \in lo .. 0
  <2> SUFFICES ASSUME x <= 0 PROVE q \in lo .. 0
    OBVIOUS
  <2>1. 100 * x \in Int /\ lo * n <= 100 * x /\ 100 * x <= 0 * n
    BY <1>2, <1>4
  <2> QED
    BY <1>2, <2>1, DivisionWithin
<1>7. x >= 0 => q \in 0 .. 100
  <2> SUFFICES ASSUME x >= 0 PROVE q \in 0 .. 100
    OBVIOUS
  <2>1. 100 * x \in Int /\ 0 * n <= 100 * x /\ 100 * x <= 100 * n
    BY <1>2
  <2> QED
    BY <1>2, <2>1, DivisionWithin
<1> HIDE DEF q
<1> QED
  BY <1>3, <1>4, <1>5, <1>6, <1>7

\* A margin of safety that is scored rests on scenarios that work, and has the sign of
\* what the base case is worth beyond the price.
LEMMA SafetyFacts ==
    ASSUME ValuationRules(Rules.valuation), NEW v, Typed("valuation", v), v.price # None,
           Known(Safety(v))
    PROVE  /\ Works(v) /\ "base" \in DOMAIN Scenarios(v) /\ Safety(v) \in Int
           /\ Safety(v) > 0 => v.price <= Scenarios(v)["base"]
           /\ Safety(v) < 0 => Scenarios(v)["base"] <= v.price
<1> DEFINE b == Scenarios(v)["base"]
           p == v.price
           q == (100 * b) \div p
<1>1. Computed(v) /\ Reliable(v) /\ "base" \in DOMAIN Scenarios(v)
  BY DEF Safety, Known
<1>2. Safety(v) = q - 100
  BY <1>1 DEF Safety
<1>3. Works(v)
  BY <1>1 DEF Works, Reliable
<1>4. p \in Nat \ {0}
  BY ValuationFacts DEF Maybe, Positive
<1>5. b \in Int
  BY <1>1, <1>3, ScenarioOrder
<1> HIDE DEF b, p
<1>6. q \in Int /\ q * p <= 100 * b /\ 100 * b < q * p + p
  <2> DEFINE y == 100 * b
  <2>1. y \in Int
    BY <1>5
  <2> HIDE DEF y
  <2>2. y \div p \in Int /\ (y \div p) * p <= y /\ y < (y \div p) * p + p
    BY <1>4, <2>1
  <2> QED
    BY <2>2 DEF y
<1> HIDE DEF q
<1>7. q - 100 > 0 => p <= b
  <2> SUFFICES ASSUME q >= 101 PROVE p <= b
    BY <1>6
  <2>1. p * 101 <= p * q
    BY <1>4, <1>6, ProductKeepsOrder
  <2>2. p * q = q * p /\ q * p \in Int
    BY <1>4, <1>6
  <2> QED
    BY <1>4, <1>5, <1>6, <2>1, <2>2
<1>8. q - 100 < 0 => b <= p
  <2> SUFFICES ASSUME q <= 99 PROVE b <= p
    BY <1>6
  <2>1. p * q <= p * 99
    BY <1>4, <1>6, ProductKeepsOrder
  <2>2. p * q = q * p /\ q * p \in Int
    BY <1>4, <1>6
  <2> QED
    BY <1>4, <1>5, <1>6, <2>1, <2>2
<1> QED
  BY <1>1, <1>2, <1>3, <1>6, <1>7, <1>8 DEF b, p

LEMMA PeerSignalsAreSignals ==
    ASSUME NEW v, Typed("valuation", v)
    PROVE  Signals(PeerSignals(v))
<1> DEFINE known == {k \in DOMAIN v.peers : Known(v.peers[k])}
           f == [k \in known |-> Sig(k, "relative", -v.peers[k], Size(v.peers[k]))]
<1>1. v.peers \in [{"pe", "pb"} -> Maybe(Int)]
  BY ValuationFacts
<1>2. IsFiniteSet(known)
  <2>1. IsFiniteSet({"pe", "pb"})
    <3>1. {"pe", "pb"} = {"pe"} \cup {"pb"}
      OBVIOUS
    <3>2. IsFiniteSet({"pe"} \cup {"pb"})
      BY FS_Singleton, FS_Union
    <3> QED
      BY <3>1, <3>2
  <2>2. known \subseteq {"pe", "pb"}
    BY <1>1
  <2> QED
    BY <2>1, <2>2, FS_Subset
<1>3. PeerSignals(v) = {f[k] : k \in known}
  BY DEF PeerSignals
<1>4. ASSUME NEW k \in known PROVE Signal(f[k])
  <2>1. v.peers[k] \in Maybe(Int) /\ Known(v.peers[k])
    BY <1>1
  <2>2. v.peers[k] \in Int
    BY <2>1, KnownFacts
  <2>3. -v.peers[k] \in Int /\ Size(v.peers[k]) \in Int
    BY <2>2, SizeIsNat
  <2>4. Signals({Sig(k, "relative", -v.peers[k], Size(v.peers[k]))})
    BY <2>3, SigIsSignal
  <2>5. f[k] = Sig(k, "relative", -v.peers[k], Size(v.peers[k]))
    OBVIOUS
  <2> HIDE DEF f
  <2> QED
    BY <2>4, <2>5 DEF Signals
<1> HIDE DEF f, known
<1>5. IsFiniteSet({f[k] : k \in known})
  BY <1>2, ImageIsNoLarger
<1> QED
  BY <1>3, <1>4, <1>5 DEF Signals

LEMMA ValuationScoreWithin ==
    ASSUME ValuationRules(Rules.valuation), NEW v, Typed("valuation", v), v.price # None,
           Known(Safety(v)) \/ PeerSignals(v) # {}
    PROVE  ValuationScore(v) \in Scores
<1>1. CASE Known(Safety(v))
  <2> DEFINE q == Squashed(Safety(v))
  <2>1. Safety(v) \in Int
    BY <1>1, SafetyFacts
  <2>2. q \in -100 .. 100
    BY <2>1, SquashedWithin
  <2>3. ValuationScore(v) = 5000 + 50 * q
    BY <1>1 DEF ValuationScore
  <2> HIDE DEF q
  <2> QED
    BY <2>2, <2>3 DEF Scores
<1>2. CASE ~Known(Safety(v))
  <2> DEFINE s == PeerSignals(v)
             net == Net(s)
             n == Cardinality(s)
  <2>1. Signals(s) /\ s # {}
    BY <1>2, PeerSignalsAreSignals
  <2>2. n \in Nat \ {0}
    BY <2>1, FS_EmptySet, FS_CardinalityType DEF Signals
  <2>3. net \in Int /\ -100 * n <= net /\ net <= 100 * n
    BY <2>1, NetWithinPull
  <2>4. ValuationScore(v) = 5000 + (50 * net) \div n
    BY <1>2 DEF ValuationScore
  <2> HIDE DEF net, n
  <2> QED
    BY <2>2, <2>3, <2>4, MeanScore
<1> QED
  BY <1>1, <1>2

LEMMA ValuationConfidenceWithin ==
    ASSUME ValuationRules(Rules.valuation), NEW v, Typed("valuation", v), v.price # None
    PROVE  ValuationConfidence(v) \in 0 .. 100
<1> DEFINE s == Scenarios(v)
           both == {"bear", "bull"} \subseteq DOMAIN s
           wide == (100 * (s["bull"] - s["bear"])) \div v.price
           spread == IF both THEN wide ELSE 0
           more == IF spread = 0 THEN 100 ELSE spread
           whole == 100 + more
<1>1. ValuationConfidence(v) = IF Safety(v) = None THEN 0 ELSE 10000 \div whole
  BY DEF ValuationConfidence
<1> SUFFICES ASSUME Known(Safety(v)) PROVE 10000 \div whole \in 0 .. 100
  BY <1>1 DEF Known
<1>2. v.price \in Nat \ {0}
  BY ValuationFacts DEF Maybe, Positive
<1>3. both => wide \in Nat
  <2> SUFFICES ASSUME both PROVE wide \in Nat
    OBVIOUS
  <2>1. s["bear"] \in Int /\ s["bull"] \in Int /\ s["bear"] <= s["bull"]
    BY SafetyFacts, ScenarioOrder
  <2> DEFINE d == 100 * (s["bull"] - s["bear"])
  <2>2. d \in Nat
    BY <2>1
  <2> HIDE DEF d
  <2>3. d \div v.price \in Nat
    BY <1>2, <2>2, QuotientOrder
  <2> QED
    BY <2>3 DEF d
<1> HIDE DEF both, wide
<1>4. spread \in Nat
  BY <1>3
<1> HIDE DEF spread
<1>5. more \in Nat \ {0}
  BY <1>4
<1> HIDE DEF more
<1>6. whole \in Nat \ {0} /\ 0 * whole <= 10000 /\ 10000 <= 100 * whole
  BY <1>5
<1> HIDE DEF whole
<1> QED
  BY <1>6, DivisionWithin

LEMMA ValuationNeverFails ==
    ASSUME ValuationRules(Rules.valuation), NEW v, Typed("valuation", v)
    PROVE  Valuation(v).status # "failed"
<1>1. Valuation(v) = IF v.periods < 2 \/ v.price = None THEN NotOk("insufficient_data")
                       ELSE IF Safety(v) = None /\ PeerSignals(v) = {} THEN NotOk("insufficient_data")
                       ELSE Ok(ValuationScore(v), ValuationConfidence(v))
  BY DEF Valuation
<1> SUFFICES ASSUME v.price # None, ~(Safety(v) = None /\ PeerSignals(v) = {})
             PROVE  Ok(ValuationScore(v), ValuationConfidence(v)).status # "failed"
  BY <1>1, NothingFailed
<1>2. ValuationScore(v) \in Scores
  BY ValuationScoreWithin DEF Known
<1>3. ValuationConfidence(v) \in 0 .. 100
  BY ValuationConfidenceWithin
<1> QED
  BY <1>2, <1>3, NothingFailed

LEMMA PrintedIsInt ==
    ASSUME NEW a \in Int
    PROVE  WholeRupees(a) \in Int
<1>1. a \div 100 \in Int
  BY Z3
<1> QED
  BY <1>1 DEF WholeRupees

\* Printing keeps the order of amounts.
LEMMA PrintedOrder ==
    ASSUME NEW a \in Int, NEW b \in Int, a <= b
    PROVE  WholeRupees(a) <= WholeRupees(b)
<1> DEFINE x == a \div 100
           y == b \div 100
           i == a % 100
           j == b % 100
<1>1. /\ x \in Int /\ i \in 0 .. 99 /\ a = 100 * x + i
      /\ y \in Int /\ j \in 0 .. 99 /\ b = 100 * y + j
  BY Z3
<1> DEFINE up == i > 50 \/ (i = 50 /\ x % 2 = 1)
           over == j > 50 \/ (j = 50 /\ y % 2 = 1)
<1>2. /\ WholeRupees(a) = 100 * (IF up THEN x + 1 ELSE x)
      /\ WholeRupees(b) = 100 * (IF over THEN y + 1 ELSE y)
  BY DEF WholeRupees
<1> HIDE DEF x, y, i, j
<1>3. x < y \/ (x = y /\ i <= j)
  BY <1>1
<1>4. x = y /\ i <= j => (up => over)
  BY <1>1
<1> HIDE DEF up, over
<1> QED
  BY <1>1, <1>2, <1>3, <1>4

\* A cash flow that is scored has its scenarios in order and its limit, as printed,
\* not passed by the price as printed.
LEMMA ValuationIsCoherent ==
    ASSUME ValuationRules(Rules.valuation), NEW v, Typed("valuation", v),
           Valuation(v).status = "ok", Known(Safety(v))
    PROVE  LET s == Scenarios(v)
               limit == ValuationLimit(v) IN
           /\ Valuation(v).score = ValuationScore(v)
           /\ "bear" \in DOMAIN s => s["bear"] <= s["base"]
           /\ "bull" \in DOMAIN s => s["base"] <= s["bull"]
           /\ Known(limit) => IF ValuationScore(v) > 5000 THEN WholeRupees(v.price) <= limit
                               ELSE WholeRupees(v.price) >= limit
<1> DEFINE s == Scenarios(v)
           limit == ValuationLimit(v)
           score == ValuationScore(v)
           x == Safety(v)
           q == Squashed(x)
<1>1. Valuation(v) = IF v.periods < 2 \/ v.price = None THEN NotOk("insufficient_data")
                       ELSE IF Safety(v) = None /\ PeerSignals(v) = {} THEN NotOk("insufficient_data")
                       ELSE Ok(score, ValuationConfidence(v))
  BY DEF Valuation
<1>2. NotOk("insufficient_data").status # "ok"
  BY DEF NotOk
<1>3. v.price # None /\ Valuation(v) = Ok(score, ValuationConfidence(v))
  BY <1>1, <1>2
<1>4. Valuation(v).score = score
  <2>1. score \in Scores /\ ValuationConfidence(v) \in 0 .. 100
    BY <1>3, ValuationScoreWithin, ValuationConfidenceWithin
  <2>2. Valuation(v) = [status |-> "ok", score |-> score, confidence |-> ValuationConfidence(v)]
    BY <1>3, <2>1, OkIsOk
  <2> HIDE DEF score
  <2> QED
    BY <2>2
<1>5. /\ Works(v) /\ "base" \in DOMAIN s /\ x \in Int
      /\ x > 0 => v.price <= s["base"]
      /\ x < 0 => s["base"] <= v.price
  BY <1>3, SafetyFacts
<1>6. /\ \A n \in DOMAIN s : s[n] \in Int
      /\ "bear" \in DOMAIN s => s["bear"] <= s["base"]
      /\ "bull" \in DOMAIN s => s["base"] <= s["bull"]
  BY <1>5, ScenarioOrder
<1>7. v.price \in Int
  BY <1>3, ValuationFacts DEF Maybe, Positive
<1>8. q \in -100 .. 100 /\ (x <= 0 => q <= 0) /\ (x >= 0 => q >= 0)
  BY <1>5, SquashedWithin
<1>9. score = 5000 + 50 * q
  BY DEF ValuationScore
<1>10. limit = IF score > 5000 /\ "bull" \in DOMAIN s THEN WholeRupees(s["bull"])
               ELSE IF score < 5000 /\ "bear" \in DOMAIN s THEN WholeRupees(s["bear"])
               ELSE None
  BY DEF ValuationLimit
<1> HIDE DEF s, limit, score, x, q
<1>11. score \in Int /\ (score > 5000 => x > 0) /\ (score < 5000 => x < 0)
  BY <1>5, <1>8, <1>9
<1>12. ASSUME Known(limit), score > 5000 PROVE WholeRupees(v.price) <= limit
  <2>1. ~(score < 5000)
    BY <1>11, <1>12
  <2>2. "bull" \in DOMAIN s /\ limit = WholeRupees(s["bull"])
    BY <1>10, <1>12, <2>1 DEF Known
  <2>3. s["bull"] \in Int /\ v.price <= s["bull"]
    BY <1>5, <1>6, <1>7, <1>11, <1>12, <2>2
  <2> QED
    BY <1>7, <2>2, <2>3, PrintedOrder
<1>13. ASSUME Known(limit), ~(score > 5000) PROVE WholeRupees(v.price) >= limit
  <2>1. score < 5000 /\ "bear" \in DOMAIN s /\ limit = WholeRupees(s["bear"])
    BY <1>10, <1>13 DEF Known
  <2>2. s["bear"] \in Int /\ s["bear"] <= v.price
    BY <1>5, <1>6, <1>7, <1>11, <2>1
  <2>3. limit <= WholeRupees(v.price)
    BY <1>7, <2>1, <2>2, PrintedOrder
  <2>4. limit \in Int /\ WholeRupees(v.price) \in Int
    BY <1>7, <2>1, <2>2, PrintedIsInt
  <2> QED
    BY <2>3, <2>4
<1> QED
  BY <1>4, <1>6, <1>12, <1>13 DEF s, limit, score

\* What an agent reads is of its type, and what it recorded is its output of it, unless
\* something under it raised.
AgentInv == /\ agent \in Analysts
            /\ Typed(agent, seen)
            /\ \/ out = Output(agent, seen)
               \/ out = NotOk("failed") /\ raised

LEMMA FactTypeNames ==
    DOMAIN FactTypes = {"risk", "technical", "fundamental", "valuation", "news", "macro", "portfolio"}
BY DEF FactTypes

LEMMA ObservedIsTyped ==
    ASSUME NEW a \in Analysts, NEW s, Typed(a, s), NEW f \in DOMAIN Unusual[a],
           NEW value \in {Usual[a][f]} \cup Unusual[a][f]
    PROVE  Typed(a, [s EXCEPT ![f] = value])
<1>1. /\ Typed(a, Usual[a]) /\ DOMAIN Unusual[a] \subseteq DOMAIN Usual[a]
      /\ Unusual[a][f] \subseteq FactTypes[a][f]
  BY FactsAssumption DEF FactsHold
<1>2. f \in DOMAIN Usual[a] /\ Usual[a][f] \in FactTypes[a][f]
  BY <1>1 DEF Typed
<1>3. value \in FactTypes[a][f]
  BY <1>1, <1>2
<1>4. /\ DOMAIN s = DOMAIN FactTypes[a]
      /\ \A g \in DOMAIN s : s[g] \in FactTypes[a][g]
  BY DEF Typed
<1> QED
  BY <1>3, <1>4 DEF Typed

LEMMA AgentInvHolds == AgentSpec => []AgentInv
<1>1. AgentInit => AgentInv
  BY FactsAssumption DEF AgentInit, AgentInv, FactsHold
<1>2. AgentInv /\ [AgentNext]_agentVars => AgentInv'
  <2> SUFFICES ASSUME AgentInv, [AgentNext]_agentVars PROVE AgentInv'
    OBVIOUS
  <2>1. ASSUME NEW f \in DOMAIN Unusual[agent],
               NEW value \in {Usual[agent][f]} \cup Unusual[agent][f], Observe(f, value)
        PROVE  AgentInv'
    <3>1. seen' = [seen EXCEPT ![f] = value] /\ out' = Output(agent, seen') /\ agent' = agent
      BY <2>1 DEF Observe
    <3>2. Typed(agent, [seen EXCEPT ![f] = value])
      BY ObservedIsTyped DEF AgentInv
    <3> QED
      BY <3>1, <3>2 DEF AgentInv
  <2>2. CASE Break
    BY <2>2 DEF Break, AgentInv
  <2>3. CASE UNCHANGED agentVars
    BY <2>3 DEF agentVars, AgentInv
  <2> QED
    BY <2>1, <2>2, <2>3 DEF AgentNext
<1> QED
  BY <1>1, <1>2, PTL DEF AgentSpec

\* An agent's own numbers meet the contract, save where a level is printed onto the close
\* or the year before the last is read and there is none.
LEMMA OutputSeldomFails ==
    ASSUME AgentInv, Output(agent, seen).status = "failed"
    PROVE  PrintsOntoClose \/ LacksPriorYear
<1>1. /\ RiskAnalysisRules(Rules.risk) /\ PortfolioRules(Rules.portfolio)
      /\ TechnicalRules(Rules.technical) /\ FundamentalRules(Rules.fundamental)
      /\ ValuationRules(Rules.valuation) /\ NewsRules(Rules.news) /\ MacroRules(Rules.macro)
  BY RulesAssumption DEF RulesHold
<1>2. IsFiniteSet(Limits)
  BY FactsAssumption DEF FactsHold
<1>3. Typed(agent, seen)
  BY DEF AgentInv
<1>4. agent \in {"risk", "technical", "fundamental", "valuation", "news", "macro", "portfolio"}
  BY FactTypeNames, FactsAssumption DEF AgentInv, FactsHold
<1>5. CASE agent = "technical"
  <2>1. Technical(seen).status = "failed"
    BY <1>5 DEF Output
  <2> QED
    BY <1>1, <1>3, <1>5, <2>1, TechnicalSeldomFails DEF PrintsOntoClose
<1>6. CASE agent = "risk"
  <2>1. Risk(seen).status = "failed"
    BY <1>6 DEF Output
  <2> QED
    BY <1>1, <1>3, <1>6, <2>1, RiskNeverFails
<1>7. CASE agent = "fundamental"
  <2>1. Fundamental(seen).status = "failed"
    BY <1>7 DEF Output
  <2> QED
    BY <1>1, <1>3, <1>7, <2>1, FundamentalSeldomFails DEF LacksPriorYear
<1>8. CASE agent = "valuation"
  <2>1. Valuation(seen).status = "failed"
    BY <1>8 DEF Output
  <2> QED
    BY <1>1, <1>3, <1>8, <2>1, ValuationNeverFails
<1>9. CASE agent = "news"
  <2>1. News(seen).status = "failed"
    BY <1>9 DEF Output
  <2> QED
    BY <1>1, <1>3, <1>9, <2>1, NewsNeverFails
<1>10. CASE agent = "macro"
  <2>1. Macro(seen).status = "failed"
    BY <1>10 DEF Output
  <2> QED
    BY <1>1, <1>3, <1>10, <2>1, MacroNeverFails
<1>11. CASE agent = "portfolio"
  <2>1. PortfolioFit(seen).status = "failed"
    BY <1>11 DEF Output
  <2> QED
    BY <1>1, <1>2, <1>3, <1>11, <2>1, PortfolioNeverFails
<1> QED
  BY <1>4, <1>5, <1>6, <1>7, <1>8, <1>9, <1>10, <1>11

\* Whatever the facts and the rules, an agent reports a failure only when something under
\* it raised, when the technical agent prints a level onto the close it lies short of, or
\* when the fundamental agent may run on one annual period and has just one.
THEOREM AgentsMeetTheContract == AgentSpec => []OnlyBreakageFails
<1>1. AgentInv => OnlyBreakageFails
  BY OutputSeldomFails DEF AgentInv, OnlyBreakageFails
<1> QED
  BY <1>1, AgentInvHolds, PTL

\* Whatever the facts and the rules, a cash flow that is scored orders its scenarios, and
\* names a limit that the price, printed to whole rupees as the limit is, has not passed.
THEOREM CashFlowsCohere == AgentSpec => []ScoredDcfIsCoherent
<1>1. AgentInv => ScoredDcfIsCoherent
  <2> SUFFICES ASSUME AgentInv, agent = "valuation", out.status = "ok", Known(Safety(seen))
               PROVE  ScoredDcfIsCoherent
    BY DEF ScoredDcfIsCoherent
  <2>1. ValuationRules(Rules.valuation) /\ Typed("valuation", seen)
    BY RulesAssumption DEF RulesHold, AgentInv
  <2>2. out = Valuation(seen)
    <3>1. NotOk("failed").status # "ok"
      BY DEF NotOk
    <3> QED
      BY <3>1 DEF AgentInv, Output
  <2>3. /\ out.score = ValuationScore(seen)
        /\ "bear" \in DOMAIN Scenarios(seen) =>
              Scenarios(seen)["bear"] <= Scenarios(seen)["base"]
        /\ "bull" \in DOMAIN Scenarios(seen) =>
              Scenarios(seen)["base"] <= Scenarios(seen)["bull"]
        /\ Known(ValuationLimit(seen)) =>
              IF ValuationScore(seen) > 5000
              THEN WholeRupees(seen.price) <= ValuationLimit(seen)
              ELSE WholeRupees(seen.price) >= ValuationLimit(seen)
    BY <2>1, <2>2, ValuationIsCoherent
  <2> QED
    BY <2>3 DEF ScoredDcfIsCoherent
<1> QED
  BY <1>1, AgentInvHolds, PTL

\* The formula keeps the order of what the categories score.
LEMMA CompositeOrder ==
    ASSUME NEW S, Signals(S), NEW U, Signals(U), NEW weights, Shares(weights),
           \A c \in DOMAIN weights :
              /\ Of(S, c) = {} <=> Of(U, c) = {}
              /\ Of(S, c) # {} => CategoryNet(S, c) <= CategoryNet(U, c)
    PROVE  Composite(S, weights).score <= Composite(U, weights).score
<1> DEFINE present == {c \in DOMAIN weights : Of(S, c) # {}}
           presentU == {c \in DOMAIN weights : Of(U, c) # {}}
           f == [c \in present |-> weights[c] * CategoryNet(S, c)]
           g == [c \in present |-> weights[c] * CategoryNet(U, c)]
           wsum == SumFunctionOnSet(weights, present)
           low == SumFunction(f)
           high == SumFunction(g)
           x == IF wsum = 0 THEN 5000 ELSE 5000 + low \div (2 * wsum)
           y == IF wsum = 0 THEN 5000 ELSE 5000 + high \div (2 * wsum)
<1>1. presentU = present
  OBVIOUS
<1>2. Composite(S, weights).score = x
  BY DEF Composite
<1>3. Composite(U, weights).score = y
  <2>1. Composite(U, weights).score =
           (IF SumFunctionOnSet(weights, presentU) = 0 THEN 5000
            ELSE 5000 + SumFunction([c \in presentU |-> weights[c] * CategoryNet(U, c)])
                         \div (2 * SumFunctionOnSet(weights, presentU)))
    BY DEF Composite
  <2> HIDE DEF present, presentU
  <2> QED
    BY <1>1, <2>1
<1>4. /\ IsFiniteSet(DOMAIN weights) /\ \A c \in DOMAIN weights : weights[c] \in Nat
  BY DEF Shares
<1>5. IsFiniteSet(present) /\ present \in SUBSET DOMAIN weights
  BY <1>4, FS_Subset
<1>6. wsum \in Nat
  BY <1>4, <1>5, SumWithout DEF On
<1>7. \A c \in present : f[c] \in Int /\ g[c] \in Int /\ f[c] <= g[c]
  <2> SUFFICES ASSUME NEW c \in present PROVE f[c] \in Int /\ g[c] \in Int /\ f[c] <= g[c]
    OBVIOUS
  <2> DEFINE w == weights[c]
             p == CategoryNet(S, c)
             q == CategoryNet(U, c)
  <2>1. w \in Nat /\ p <= q
    BY <1>4
  <2>2. p \in Int /\ q \in Int
    <3>1. p \in -10000 .. 10000 /\ q \in -10000 .. 10000
      BY CategoryNetWithin
    <3> HIDE DEF p, q
    <3> QED
      BY <3>1
  <2>3. f[c] = w * p /\ g[c] = w * q
    OBVIOUS
  <2> HIDE DEF w, p, q, f, g, present
  <2> QED
    BY <2>1, <2>2, <2>3, ProductKeepsOrder
<1>8. DOMAIN f = present /\ DOMAIN g = present
  OBVIOUS
<1> HIDE DEF f, g, present
<1>9. low = On(f, present) /\ high = On(g, present)
  BY <1>8, SumIsOn
<1>10. low \in Int /\ high \in Int /\ low <= high
  BY <1>5, <1>7, <1>9, SumOrder
<1> HIDE DEF wsum, low, high
<1>11. x <= y
  <2>1. CASE wsum = 0
    BY <2>1
  <2>2. CASE wsum # 0
    <3> DEFINE d == 2 * wsum
    <3>1. d \in Nat \ {0}
      BY <1>6, <2>2
    <3> HIDE DEF d
    <3> DEFINE p == low \div d
               q == high \div d
    <3>2. p \in Int /\ q \in Int /\ p <= q
      BY <1>10, <3>1, DivisionKeepsOrder
    <3>3. x = 5000 + p /\ y = 5000 + q
      BY <2>2 DEF d
    <3> HIDE DEF p, q, x, y
    <3> QED
      BY <3>2, <3>3
  <2> QED
    BY <2>1, <2>2
<1> QED
  BY <1>2, <1>3, <1>11

\* What one signal contributes, by the sign of what it is about and its strength.
Contribution(s) == s.dir * s.strength

LEMMA ContributionOrder ==
    ASSUME NEW i, NEW j, NEW c, NEW d, NEW x \in Int, NEW y \in Int, x <= y, NEW p \in Int, NEW q \in Int,
           x >= 0 => p <= q, y <= 0 => q <= p
    PROVE  Contribution(Sig(i, c, x, p)) <= Contribution(Sig(j, d, y, q))
<1> DEFINE a == Sig(i, c, x, p)
           b == Sig(j, d, y, q)
<1>1. /\ a.dir = Direction(x) /\ a.strength = Clipped(p)
      /\ b.dir = Direction(y) /\ b.strength = Clipped(q)
  BY DEF Sig
<1>2. /\ Clipped(p) \in Nat /\ Clipped(q) \in Nat
      /\ p <= q => Clipped(p) <= Clipped(q)
      /\ q <= p => Clipped(q) <= Clipped(p)
  BY DEF Clipped, Between, Least, Most
<1>3. /\ (x > 0 => Direction(x) = 1) /\ (x < 0 => Direction(x) = -1) /\ (x = 0 => Direction(x) = 0)
      /\ (y > 0 => Direction(y) = 1) /\ (y < 0 => Direction(y) = -1) /\ (y = 0 => Direction(y) = 0)
  BY DEF Direction
<1> DEFINE s == Clipped(p)
           t == Clipped(q)
<1>4. Contribution(a) = Direction(x) * s /\ Contribution(b) = Direction(y) * t
  BY <1>1 DEF Contribution
<1> HIDE DEF a, b, s, t
<1>5. s \in Nat /\ t \in Nat /\ (p <= q => s <= t) /\ (q <= p => t <= s)
  BY <1>2 DEF s, t
<1>6. /\ 1 * s = s /\ -1 * s = -s /\ 0 * s = 0 /\ 1 * t = t /\ -1 * t = -t /\ 0 * t = 0
  BY <1>5
<1>7. CASE x > 0
  <2>1. y > 0 /\ p <= q
    BY <1>7
  <2>2. Contribution(a) = s /\ Contribution(b) = t
    BY <1>3, <1>4, <1>5, <1>7, <2>1
  <2> QED
    BY <1>5, <2>1, <2>2 DEF a, b
<1>8. CASE x = 0
  <2>1. Contribution(a) = 0
    BY <1>3, <1>4, <1>5, <1>8
  <2>2. Contribution(b) >= 0
    BY <1>3, <1>4, <1>5, <1>8
  <2> QED
    BY <2>1, <2>2 DEF a, b
<1>9. CASE x < 0
  <2>1. Contribution(a) = -s
    BY <1>3, <1>4, <1>5, <1>9
  <2>2. CASE y >= 0
    <3>1. Contribution(b) >= 0 /\ Contribution(b) \in Int
      BY <1>3, <1>4, <1>5, <2>2
    <3> QED
      BY <1>5, <2>1, <3>1 DEF a, b
  <2>3. CASE y < 0
    <3>1. Contribution(b) = -t /\ t <= s
      BY <1>3, <1>4, <1>5, <2>3
    <3> QED
      BY <1>5, <2>1, <3>1 DEF a, b
  <2> QED
    BY <2>2, <2>3
<1> QED
  BY <1>7, <1>8, <1>9

LEMMA SingleCategory ==
    ASSUME NEW S, Signals(S), NEW c, NEW s, Of(S, c) = {s}
    PROVE  /\ CategoryNet(S, c) = 100 * Contribution(s)
           /\ Contribution(s) \in Int
<1> DEFINE net == [u \in {s} |-> u.dir * u.strength]
<1>1. s \in S
  BY DEF Of
<1>2. Contribution(s) \in Int
  BY <1>1 DEF Signals, Signal, Contribution
<1>3. net[s] = Contribution(s) /\ DOMAIN net = {s}
  BY DEF Contribution
<1>4. Net({s}) = On(net, {s})
  BY <1>3, SumIsOn DEF Net
<1> HIDE DEF net
<1>5. On(net, {s}) = net[s]
  <2>1. PICK one : one = {s}
    OBVIOUS
  <2>2. IsFiniteSet(one)
    BY <2>1, FS_Singleton
  <2>3. \A u \in one : net[u] \in Int
    BY <1>2, <1>3, <2>1
  <2>4. On(net, one) = net[s]
    BY <2>1, <2>2, <2>3, SumTypes
  <2> QED
    BY <2>1, <2>4
<1>6. Cardinality({s}) = 1
  BY FS_Singleton
<1>7. CategoryNet(S, c) = (100 * Net({s})) \div Cardinality({s})
  BY DEF CategoryNet
<1> DEFINE k == Contribution(s)
<1>8. CategoryNet(S, c) = (100 * k) \div 1
  BY <1>3, <1>4, <1>5, <1>6, <1>7
<1> HIDE DEF k
<1>9. k \in Int
  BY <1>2 DEF k
<1>10. (100 * k) \div 1 = 100 * k
  BY <1>9
<1> QED
  BY <1>2, <1>8, <1>10 DEF k

\* The single signals of the risk agent.
DrawdownSignal(m) ==
    LET target == Rules.risk.drawdownWarning \div 2
    IN Sig("max_drawdown", "drawdown", target - m.drawdown,
             (100 * Size(m.drawdown - target)) \div target)

BetaSignal(m) ==
    IF m.beta > Rules.risk.highBeta THEN Sig("beta", "market", -1, 40 + m.beta - Rules.risk.highBeta)
    ELSE IF m.beta < Rules.risk.lowBeta THEN Sig("beta", "market", 1, 30 + Rules.risk.lowBeta - m.beta)
    ELSE Sig("beta", "market", 0, 0)

SharpeSignal(m) == Sig("sharpe", "return_quality", m.sharpe - 50, Size(m.sharpe - 50))

LiquiditySignal(m) == IF m.adtv < 0 THEN Sig("liquidity", "liquidity", -1, 100)
                      ELSE Sig("liquidity", "liquidity", 1, m.adtv)

\* Every category of the risk agent holds the signals of one measure.
LEMMA RiskCategories ==
    ASSUME NEW m
    PROVE  /\ Of(RiskSignals(m), "volatility") = VolatilitySignals(m)
           /\ Of(RiskSignals(m), "drawdown") = {DrawdownSignal(m)}
           /\ Of(RiskSignals(m), "market") = (IF Known(m.beta) THEN {BetaSignal(m)} ELSE {})
           /\ Of(RiskSignals(m), "return_quality") =
                 (IF Known(m.sharpe) THEN {SharpeSignal(m)} ELSE {})
           /\ Of(RiskSignals(m), "liquidity") =
                 (IF Known(m.adtv) THEN {LiquiditySignal(m)} ELSE {})
           /\ \A c : c \notin {"volatility", "drawdown", "market", "return_quality", "liquidity"}
                        => Of(RiskSignals(m), c) = {}
<1> DEFINE V == VolatilitySignals(m)
           B == IF Known(m.beta) THEN {BetaSignal(m)} ELSE {}
           H == IF Known(m.sharpe) THEN {SharpeSignal(m)} ELSE {}
           L == IF Known(m.adtv) THEN {LiquiditySignal(m)} ELSE {}
<1>0. \A n, c, v, k : Sig(n, c, v, k).category = c
  BY DEF Sig
<1>1. \A s \in V : s.category = "volatility"
  BY <1>0 DEF VolatilitySignals, When
<1>2. DrawdownSignal(m).category = "drawdown"
  BY <1>0 DEF DrawdownSignal
<1>3. BetaSignal(m).category = "market"
  BY <1>0 DEF BetaSignal
<1>4. SharpeSignal(m).category = "return_quality"
  BY <1>0 DEF SharpeSignal
<1>5. LiquiditySignal(m).category = "liquidity"
  BY <1>0 DEF LiquiditySignal
<1>6. RiskSignals(m) = V \cup {DrawdownSignal(m)} \cup B \cup H \cup L
  <2>1. DrawdownSignals(m) = {DrawdownSignal(m)}
    BY DEF DrawdownSignals, DrawdownSignal
  <2>2. BetaSignals(m) = B
    BY DEF BetaSignals, BetaSignal, When
  <2>3. SharpeSignals(m) = H
    BY DEF SharpeSignals, SharpeSignal, When
  <2>4. LiquiditySignals(m) = L
    BY DEF LiquiditySignals, LiquiditySignal, When
  <2> QED
    BY <2>1, <2>2, <2>3, <2>4 DEF RiskSignals
<1>7. /\ \A s \in B : s.category = "market"
      /\ \A s \in H : s.category = "return_quality"
      /\ \A s \in L : s.category = "liquidity"
  BY <1>3, <1>4, <1>5
<1> DEFINE D == {DrawdownSignal(m)}
           R == RiskSignals(m)
<1>8. \A s \in D : s.category = "drawdown"
  BY <1>2
<1>9. R = V \cup D \cup B \cup H \cup L
  BY <1>6
<1> HIDE DEF V, D, B, H, L, R
<1>10. /\ Of(R, "volatility") = V /\ Of(R, "drawdown") = D /\ Of(R, "market") = B
       /\ Of(R, "return_quality") = H /\ Of(R, "liquidity") = L
       /\ \A c : c \notin {"volatility", "drawdown", "market", "return_quality", "liquidity"}
                    => Of(R, c) = {}
  BY <1>1, <1>7, <1>8, <1>9 DEF Of
<1> QED
  BY <1>10 DEF V, D, B, H, L, R

LEMMA DrawdownOrder ==
    ASSUME RiskAnalysisRules(Rules.risk), NEW m, NEW n, m.drawdown \in Nat, n.drawdown \in Nat,
           n.drawdown <= m.drawdown
    PROVE  Contribution(DrawdownSignal(m)) <= Contribution(DrawdownSignal(n))
<1> DEFINE target == Rules.risk.drawdownWarning \div 2
           x == target - m.drawdown
           y == target - n.drawdown
           a == Size(m.drawdown - target)
           b == Size(n.drawdown - target)
           p == (100 * a) \div target
           q == (100 * b) \div target
<1>1. target \in Nat \ {0}
  BY ThresholdSums
<1>2. /\ DrawdownSignal(m) = Sig("max_drawdown", "drawdown", x, p)
      /\ DrawdownSignal(n) = Sig("max_drawdown", "drawdown", y, q)
  BY DEF DrawdownSignal
<1> HIDE DEF target
<1>3. x \in Int /\ y \in Int /\ x <= y
  BY <1>1
<1>4. a \in Nat /\ b \in Nat /\ (x >= 0 => a <= b) /\ (y <= 0 => b <= a)
  BY <1>1 DEF Size
<1> HIDE DEF a, b, x, y
<1>5. 100 * a \in Int /\ 100 * b \in Int /\ (a <= b => 100 * a <= 100 * b) /\ (b <= a => 100 * b <= 100 * a)
  BY <1>4
<1>6. p \in Int /\ q \in Int /\ (a <= b => p <= q) /\ (b <= a => q <= p)
  BY <1>1, <1>5, DivisionKeepsOrder
<1> HIDE DEF p, q
<1> QED
  BY <1>2, <1>3, <1>4, <1>6, ContributionOrder

LEMMA BetaOrder ==
    ASSUME RiskAnalysisRules(Rules.risk), NEW m, NEW n, m.beta \in Int, n.beta \in Int,
           n.beta <= m.beta
    PROVE  Contribution(BetaSignal(m)) <= Contribution(BetaSignal(n))
<1> DEFINE low == Rules.risk.lowBeta
           high == Rules.risk.highBeta
           x == IF m.beta > high THEN -1 ELSE IF m.beta < low THEN 1 ELSE 0
           y == IF n.beta > high THEN -1 ELSE IF n.beta < low THEN 1 ELSE 0
           p == IF m.beta > high THEN 40 + m.beta - high ELSE IF m.beta < low THEN 30 + low - m.beta ELSE 0
           q == IF n.beta > high THEN 40 + n.beta - high ELSE IF n.beta < low THEN 30 + low - n.beta ELSE 0
<1>1. low \in Int /\ high \in Int /\ low < high
  BY DEF RiskAnalysisRules
<1>2. BetaSignal(m) = Sig("beta", "market", x, p) /\ BetaSignal(n) = Sig("beta", "market", y, q)
  BY DEF BetaSignal
<1> HIDE DEF low, high
<1>3. x \in Int /\ y \in Int /\ x <= y /\ p \in Int /\ q \in Int
  BY <1>1
<1>4. (x >= 0 => p <= q) /\ (y <= 0 => q <= p)
  BY <1>1
<1> HIDE DEF x, y, p, q
<1> QED
  BY <1>2, <1>3, <1>4, ContributionOrder

LEMMA SharpeOrder ==
    ASSUME NEW m, NEW n, m.sharpe \in Int, n.sharpe \in Int, m.sharpe <= n.sharpe
    PROVE  Contribution(SharpeSignal(m)) <= Contribution(SharpeSignal(n))
<1> DEFINE x == m.sharpe - 50
           y == n.sharpe - 50
           p == Size(x)
           q == Size(y)
<1>1. x \in Int /\ y \in Int /\ x <= y
  OBVIOUS
<1>2. /\ SharpeSignal(m) = Sig("sharpe", "return_quality", x, p)
      /\ SharpeSignal(n) = Sig("sharpe", "return_quality", y, q)
  BY DEF SharpeSignal
<1> HIDE DEF x, y
<1>3. p \in Int /\ q \in Int /\ (x >= 0 => p <= q) /\ (y <= 0 => q <= p)
  BY <1>1 DEF Size
<1> HIDE DEF p, q
<1> QED
  BY <1>1, <1>2, <1>3, ContributionOrder

LEMMA LiquidityOrder ==
    ASSUME NEW m, NEW n, m.adtv \in Int, n.adtv \in Int, m.adtv <= n.adtv
    PROVE  Contribution(LiquiditySignal(m)) <= Contribution(LiquiditySignal(n))
<1> DEFINE x == IF m.adtv < 0 THEN -1 ELSE 1
           y == IF n.adtv < 0 THEN -1 ELSE 1
           p == IF m.adtv < 0 THEN 100 ELSE m.adtv
           q == IF n.adtv < 0 THEN 100 ELSE n.adtv
<1>1. /\ LiquiditySignal(m) = Sig("liquidity", "liquidity", x, p)
      /\ LiquiditySignal(n) = Sig("liquidity", "liquidity", y, q)
  BY DEF LiquiditySignal
<1>2. /\ x \in Int /\ y \in Int /\ x <= y /\ p \in Int /\ q \in Int
      /\ (x >= 0 => p <= q) /\ (y <= 0 => q <= p)
  OBVIOUS
<1> HIDE DEF x, y, p, q
<1> QED
  BY <1>1, <1>2, ContributionOrder

\* A category of one signal follows the contribution of that signal.
LEMMA SingleOrder ==
    ASSUME NEW S, Signals(S), NEW U, Signals(U), NEW c, NEW s, NEW u,
           Of(S, c) = {s}, Of(U, c) = {u}, Contribution(s) <= Contribution(u)
    PROVE  CategoryNet(S, c) <= CategoryNet(U, c)
<1>1. CategoryNet(S, c) = 100 * Contribution(s) /\ Contribution(s) \in Int
  BY SingleCategory
<1>2. CategoryNet(U, c) = 100 * Contribution(u) /\ Contribution(u) \in Int
  BY SingleCategory
<1> DEFINE a == Contribution(s)
           b == Contribution(u)
<1>3. a \in Int /\ b \in Int /\ a <= b
  BY <1>1, <1>2
<1> HIDE DEF a, b
<1>4. 100 * a <= 100 * b
  BY <1>3
<1> QED
  BY <1>1, <1>2, <1>4 DEF a, b

LEMMA SaferScoresNoWorse ==
    ASSUME RiskAnalysisRules(Rules.risk), NEW m, NEW n, Typed("risk", m), Typed("risk", n),
           Safer(m, n)
    PROVE  Composite(RiskSignals(m), Rules.risk.weights).score
              <= Composite(RiskSignals(n), Rules.risk.weights).score
<1> DEFINE S == RiskSignals(m)
           U == RiskSignals(n)
<1>1. Signals(S) /\ Signals(U)
  BY RiskSignalsAreSignals
<1>2. /\ m.drawdown \in Nat /\ n.drawdown \in Nat /\ m.beta \in Maybe(Int) /\ n.beta \in Maybe(Int)
      /\ m.sharpe \in Maybe(Int) /\ n.sharpe \in Maybe(Int)
      /\ m.adtv \in Maybe(Int) /\ n.adtv \in Maybe(Int)
  BY RiskFacts
<1>3. /\ n.drawdown <= m.drawdown /\ n["volatility"] = m["volatility"] /\ n["recent"] = m["recent"]
      /\ Known(m.beta) <=> Known(n.beta)
      /\ Known(m.sharpe) <=> Known(n.sharpe)
      /\ Known(m.adtv) <=> Known(n.adtv)
  BY DEF Safer
<1>4. VolatilitySignals(m) = VolatilitySignals(n)
  BY <1>3 DEF VolatilitySignals
<1> DEFINE Ordered(c) == /\ Of(S, c) = {} <=> Of(U, c) = {}
                         /\ Of(S, c) # {} => CategoryNet(S, c) <= CategoryNet(U, c)
<1> HIDE DEF S, U
<1>5. Ordered("volatility")
  <2>1. Of(S, "volatility") = Of(U, "volatility")
    BY <1>4, RiskCategories DEF S, U
  <2>2. CategoryNet(S, "volatility") = CategoryNet(U, "volatility")
    BY <2>1 DEF CategoryNet
  <2>3. Of(S, "volatility") # {} => CategoryNet(S, "volatility") \in -10000 .. 10000
    BY <1>1, CategoryNetWithin
  <2> DEFINE a == CategoryNet(S, "volatility")
             b == CategoryNet(U, "volatility")
  <2>4. Of(S, "volatility") # {} => a <= b
    <3> HIDE DEF a, b
    <3>1. a = b
      BY <2>2 DEF a, b
    <3> DEFINE W == -10000 .. 10000
    <3>2. Of(S, "volatility") # {} => a \in W
      BY <2>3 DEF a
    <3>3. \A x \in W : x <= x
      OBVIOUS
    <3> HIDE DEF W
    <3>4. Of(S, "volatility") # {} => a <= a
      BY <3>2, <3>3, Zenon
    <3> QED
      BY <3>1, <3>4, Zenon
  <2> QED
    BY <2>1, <2>4
<1>6. Ordered("drawdown")
  <2>1. Of(S, "drawdown") = {DrawdownSignal(m)} /\ Of(U, "drawdown") = {DrawdownSignal(n)}
    BY RiskCategories DEF S, U
  <2>2. Contribution(DrawdownSignal(m)) <= Contribution(DrawdownSignal(n))
    BY <1>2, <1>3, DrawdownOrder
  <2>3. CategoryNet(S, "drawdown") <= CategoryNet(U, "drawdown")
    BY <1>1, <2>1, <2>2, SingleOrder
  <2> QED
    BY <2>1, <2>3
<1>7. Ordered("market")
  <2>1. CASE ~Known(m.beta)
    <3>1. Of(S, "market") = {} /\ Of(U, "market") = {}
      BY <1>3, <2>1, RiskCategories DEF S, U
    <3> QED
      BY <3>1
  <2>2. CASE Known(m.beta)
    <3>1. Of(S, "market") = {BetaSignal(m)} /\ Of(U, "market") = {BetaSignal(n)}
      BY <1>3, <2>2, RiskCategories DEF S, U
    <3>2. m.beta \in Int /\ n.beta \in Int
      BY <1>2, <1>3, <2>2, KnownFacts
    <3>3. n.beta <= m.beta
      BY <3>2 DEF Safer
    <3>4. Contribution(BetaSignal(m)) <= Contribution(BetaSignal(n))
      BY <3>2, <3>3, BetaOrder
    <3>5. CategoryNet(S, "market") <= CategoryNet(U, "market")
      BY <1>1, <3>1, <3>4, SingleOrder
    <3> QED
      BY <3>1, <3>5
  <2> QED
    BY <2>1, <2>2
<1>8. Ordered("return_quality")
  <2>1. CASE ~Known(m.sharpe)
    <3>1. Of(S, "return_quality") = {} /\ Of(U, "return_quality") = {}
      BY <1>3, <2>1, RiskCategories DEF S, U
    <3> QED
      BY <3>1
  <2>2. CASE Known(m.sharpe)
    <3>1. /\ Of(S, "return_quality") = {SharpeSignal(m)}
          /\ Of(U, "return_quality") = {SharpeSignal(n)}
      BY <1>3, <2>2, RiskCategories DEF S, U
    <3>2. m.sharpe \in Int /\ n.sharpe \in Int
      BY <1>2, <1>3, <2>2, KnownFacts
    <3>3. m.sharpe <= n.sharpe
      BY <3>2 DEF Safer
    <3>4. Contribution(SharpeSignal(m)) <= Contribution(SharpeSignal(n))
      BY <3>2, <3>3, SharpeOrder
    <3>5. CategoryNet(S, "return_quality") <= CategoryNet(U, "return_quality")
      BY <1>1, <3>1, <3>4, SingleOrder
    <3> QED
      BY <3>1, <3>5
  <2> QED
    BY <2>1, <2>2
<1>9. Ordered("liquidity")
  <2>1. CASE ~Known(m.adtv)
    <3>1. Of(S, "liquidity") = {} /\ Of(U, "liquidity") = {}
      BY <1>3, <2>1, RiskCategories DEF S, U
    <3> QED
      BY <3>1
  <2>2. CASE Known(m.adtv)
    <3>1. /\ Of(S, "liquidity") = {LiquiditySignal(m)}
          /\ Of(U, "liquidity") = {LiquiditySignal(n)}
      BY <1>3, <2>2, RiskCategories DEF S, U
    <3>2. m.adtv \in Int /\ n.adtv \in Int
      BY <1>2, <1>3, <2>2, KnownFacts
    <3>3. m.adtv <= n.adtv
      BY <3>2 DEF Safer
    <3>4. Contribution(LiquiditySignal(m)) <= Contribution(LiquiditySignal(n))
      BY <3>2, <3>3, LiquidityOrder
    <3>5. CategoryNet(S, "liquidity") <= CategoryNet(U, "liquidity")
      BY <1>1, <3>1, <3>4, SingleOrder
    <3> QED
      BY <3>1, <3>5
  <2> QED
    BY <2>1, <2>2
<1>10. ASSUME NEW c, c \notin {"volatility", "drawdown", "market", "return_quality", "liquidity"}
       PROVE  Ordered(c)
  <2>1. Of(S, c) = {} /\ Of(U, c) = {}
    BY <1>10, RiskCategories DEF S, U
  <2> QED
    BY <2>1
<1>11. \A c : Ordered(c)
  <2> HIDE DEF Ordered
  <2> QED
    BY <1>5, <1>6, <1>7, <1>8, <1>9, <1>10
<1>12. Shares(Rules.risk.weights)
  BY ThresholdSums
<1>13. Composite(S, Rules.risk.weights).score <= Composite(U, Rules.risk.weights).score
  <2> DEFINE w == Rules.risk.weights
  <2>1. Shares(w)
    BY <1>12
  <2> HIDE DEF w
  <2>2. \A c \in DOMAIN w : /\ Of(S, c) = {} <=> Of(U, c) = {}
                            /\ Of(S, c) # {} => CategoryNet(S, c) <= CategoryNet(U, c)
    BY <1>11
  <2>3. Composite(S, w).score <= Composite(U, w).score
    BY <1>1, <2>1, <2>2, CompositeOrder
  <2> QED
    BY <2>3 DEF w
<1> QED
  BY <1>13 DEF S, U

\* What the risk agent scores when it scores.
LEMMA RiskScore ==
    ASSUME RiskAnalysisRules(Rules.risk), NEW m, Typed("risk", m), Risk(m).status = "ok"
    PROVE  Risk(m).score = Composite(RiskSignals(m), Rules.risk.weights).score
<1> DEFINE c == Composite(RiskSignals(m), Rules.risk.weights)
           sure == Share3(c.agreement, c.breadth, m.quality)
<1>1. c.score \in Scores /\ c.agreement \in 0 .. 100 /\ c.breadth \in 0 .. 100
  BY RiskSignalsAreSignals, ThresholdSums, CompositeBounds
<1>2. Risk(m) \in {NotOk("insufficient_data"), NotOk("data_unusable"), Ok(c.score, sure)}
  BY DEF Risk, Share3
<1> HIDE DEF c
<1>3. sure \in 0 .. 100
  <2>1. m.quality \in 0 .. 100
    BY RiskFacts
  <2> QED
    BY <1>1, <2>1, ShareOfShares
<1> HIDE DEF sure
<1>4. Risk(m) = Ok(c.score, sure)
  BY <1>2 DEF NotOk
<1>5. Ok(c.score, sure) = [status |-> "ok", score |-> c.score, confidence |-> sure]
  BY <1>1, <1>3, OkIsOk
<1>6. Risk(m).score = c.score
  BY <1>4, <1>5
<1> QED
  BY <1>6 DEF c

\* Whatever the facts and the rules, when the risk agent scores a stock twice and nothing
\* but its drawdown, beta, Sharpe ratio and traded value changed, each for the safer, it
\* does not score it lower.
THEOREM SaferStocksScoreNoWorse == AgentSpec => SaferIsNotWorse
<1>1. ASSUME AgentInv, AgentInv', [AgentNext]_agentVars, agent = "risk", out.status = "ok",
             out'.status = "ok", Safer(seen, seen')
      PROVE  out'.score >= out.score
  <2>1. agent' = agent
    BY <1>1 DEF AgentNext, Observe, Break, agentVars
  <2>2. RiskAnalysisRules(Rules.risk)
    BY RulesAssumption DEF RulesHold
  <2>3. NotOk("failed").status # "ok"
    BY DEF NotOk
  <2>4. Typed("risk", seen) /\ out = Risk(seen)
    BY <1>1, <2>3 DEF AgentInv, Output
  <2>5. Typed("risk", seen') /\ out' = Risk(seen')
    BY <1>1, <2>1, <2>3 DEF AgentInv, Output
  <2>6. out.score = Composite(RiskSignals(seen), Rules.risk.weights).score
    BY <1>1, <2>2, <2>4, RiskScore
  <2>7. out'.score = Composite(RiskSignals(seen'), Rules.risk.weights).score
    BY <1>1, <2>2, <2>5, RiskScore
  <2>8. out.score \in Scores /\ out'.score \in Scores
    BY <2>2, <2>4, <2>5, <2>6, <2>7, RiskSignalsAreSignals, ThresholdSums, CompositeBounds
  <2>9. out.score <= out'.score
    BY <1>1, <2>2, <2>4, <2>5, <2>6, <2>7, SaferScoresNoWorse
  <2> DEFINE a == out.score
             b == out'.score
  <2>s. \A x \in Scores : x \in Int
    BY DEF Scores
  <2>10. a \in Int /\ b \in Int /\ a <= b
    BY <2>s, <2>8, <2>9, Zenon
  <2> HIDE DEF a, b
  <2>11. b >= a
    BY <2>10
  <2> QED
    BY <2>11 DEF a, b
<1>2. AgentInv /\ AgentInv' /\ [AgentNext]_agentVars =>
         [(agent = "risk" /\ out.status = "ok" /\ out'.status = "ok" /\ Safer(seen, seen'))
            => out'.score >= out.score]_agentVars
  BY <1>1
<1> QED
  BY <1>2, AgentInvHolds, PTL DEF AgentSpec, SaferIsNotWorse
=================================================================================
