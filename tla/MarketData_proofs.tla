---------------------------- MODULE MarketData_proofs ----------------------------
(***************************************************************************)
(* Theorems about MarketData for any calendar, any number of ingestions and  *)
(* any world: its types, that versions are linear, that no bar is stored    *)
(* that was retrieved before its session closed, that a replay is exact, and *)
(* that the returns of the exchange's closes are those of a holder.          *)
(***************************************************************************)
EXTENDS MarketData, FiniteSetTheorems, SequenceTheorems, WellFoundedInduction, TLAPS

Fields == {"pc", "source", "now", "from", "to", "batch", "seen"}

Answer(r) ==
    /\ DOMAIN r = {"from", "to", "at", "bars", "actions"}
    /\ r.at \in Nat /\ IsFiniteSet(r.actions)

\* The versions of a bar: a sequence in which each says something else than the last.
Versions(q) ==
    /\ \E S : q \in Seq(S)
    /\ \A i \in 1 .. Len(q) - 1 : ~Same(q[i].value, q[i + 1].value)

Bar(s, d, q) ==
    /\ Versions(q)
    /\ q # <<>> => d \in Sessions
    /\ \A i \in 1 .. Len(q) : q[i].at >= CloseOf(d)

TablesInv ==
    /\ DOMAIN prices = Sources
    /\ \A s \in Sources : DOMAIN prices[s] = Days
    /\ \A s \in Sources, d \in Days : Bar(s, d, prices[s][d])
    /\ conflicts \subseteq [source: Sources, day: Days, to: Nat]
    /\ \A s \in Sources, d \in Days : Recorded(s, d) = 2 .. Len(prices[s][d])
    /\ ~lost
    /\ lastRun \in {None, "failed", "rejected", "succeeded", "succeeded_with_warnings"}

\* A batch is not older than the job by more than a bar takes to become available, and
\* the job that holds the lock has read the current versions.
Job(l, p, t) ==
    /\ DOMAIN l = Fields
    /\ l.pc \in {"idle", "fetch", "fetched", "store"}
    /\ l.now \in Nat /\ l.now <= t
    /\ l.pc # "idle" => l.source \in Sources
    /\ l.pc \in {"fetched", "store"} => Answer(l.batch) /\ l.batch.at + Lag >= l.now
    /\ l.pc = "store" => l.seen = p[l.source]

OneHolder == \A i, j \in Jobs : jobs[i].pc = "store" /\ jobs[j].pc = "store" => i = j

MarketInv ==
    /\ TablesInv /\ OneHolder
    /\ clock \in Nat /\ world \in Worlds /\ Answer(cache)
    /\ DOMAIN jobs = Jobs
    /\ \A j \in Jobs : Job(jobs[j], prices, clock)

-----------------------------------------------------------------------------
LEMMA InvImplies == MarketInv => TypeOK /\ VersionsAreLinear /\ CompleteWhenRetrieved
<1> SUFFICES ASSUME MarketInv PROVE TypeOK /\ VersionsAreLinear /\ CompleteWhenRetrieved
  OBVIOUS
<1>1. \A s \in Sources, d \in Days : Bar(s, d, prices[s][d])
  BY DEF MarketInv, TablesInv, Recorded
<1>3. VersionsAreLinear
  <2>1. \A s \in Sources, d \in Days : \A i \in 1 .. Len(prices[s][d]) - 1 :
           ~Same(prices[s][d][i].value, prices[s][d][i + 1].value)
    BY <1>1 DEF Bar, Versions
  <2> QED
    BY <2>1 DEF VersionsAreLinear, MarketInv, TablesInv
<1>4. CompleteWhenRetrieved
  BY <1>1 DEF CompleteWhenRetrieved, Bar
<1>5. TypeOK
  BY <1>1 DEF TypeOK, MarketInv, TablesInv, Job, Bar, ConflictType, RunStatuses
<1> QED
  BY <1>3, <1>4, <1>5

LEMMA IdleJob == \A p : \A t \in Nat : Job(Idle, p, t)
BY DEF Job, Idle, Fields

LEMMA InitInv == Init => MarketInv
<1> SUFFICES ASSUME Init PROVE MarketInv
  OBVIOUS
<1>1. /\ DOMAIN prices = Sources
      /\ \A s \in Sources : DOMAIN prices[s] = Days
      /\ \A s \in Sources, d \in Days : prices[s][d] = <<>>
  BY DEF Init
<1>2. <<>> \in Seq({}) /\ Len(<<>>) = 0
  OBVIOUS
<1>3. \A s \in Sources, d \in Days : Bar(s, d, prices[s][d]) /\ 2 .. Len(prices[s][d]) = {}
  <2>1. \A s, d : Bar(s, d, <<>>)
    BY <1>2 DEF Bar, Versions
  <2>2. 2 .. Len(<<>>) = {}
    BY <1>2
  <2> QED
    BY <1>1, <2>1, <2>2
<1>4. TablesInv
  <2>1. \A s, d : Recorded(s, d) = {}
    BY DEF Recorded, Init
  <2> QED
    BY <1>1, <1>3, <2>1 DEF Init, TablesInv
<1>5. \A j \in Jobs : jobs[j] = Idle /\ Idle.pc = "idle"
  BY DEF Init, Idle
<1>6. Answer(cache)
  BY FS_EmptySet DEF Init, NoResponse, Answer
<1> QED
  BY <1>4, <1>5, <1>6, IdleJob DEF MarketInv, OneHolder, Init

-----------------------------------------------------------------------------
(* Steps that leave the versions alone                                       *)

\* Job j moves on to x without taking the lock.
LEMMA JobMoves ==
    ASSUME MarketInv, NEW j \in Jobs, NEW x, jobs' = [jobs EXCEPT ![j] = x],
           UNCHANGED <<clock, world, prices, conflicts, lost>>,
           lastRun' \in {lastRun, "failed"}, Answer(cache'),
           Job(x, prices, clock), x.pc # "store"
    PROVE  MarketInv'
<1>1. \A i \in Jobs : jobs'[i] = IF i = j THEN x ELSE jobs[i]
  BY DEF MarketInv
<1>2. \A i \in Jobs : Job(jobs'[i], prices', clock')
  BY <1>1 DEF MarketInv
<1>3. OneHolder'
  BY <1>1 DEF MarketInv, OneHolder
<1>4. TablesInv'
  BY DEF MarketInv, TablesInv, Recorded
<1> QED
  BY <1>1, <1>2, <1>3, <1>4 DEF MarketInv

LEMMA StartInv == ASSUME MarketInv, NEW j \in Jobs, Start(j) PROVE MarketInv'
<1>1. PICK s \in Sources, from \in {1, Max({1, LatestSession - Overlap})} :
         jobs' = [jobs EXCEPT ![j] = [Idle EXCEPT !.pc = "fetch", !.source = s, !.now = clock,
                                                  !.from = from, !.to = DateOf(clock)]]
  BY DEF Start
<1> DEFINE x == [Idle EXCEPT !.pc = "fetch", !.source = s, !.now = clock,
                             !.from = from, !.to = DateOf(clock)]
<1>2. DOMAIN x = Fields /\ x.pc = "fetch" /\ x.source = s /\ x.now = clock
  BY DEF Idle, Fields
<1>3. jobs' = [jobs EXCEPT ![j] = x]
  BY <1>1
<1> HIDE DEF x
<1>4. Job(x, prices, clock)
  BY <1>2 DEF Job, MarketInv
<1>5. UNCHANGED <<clock, world, cache, prices, conflicts, lost, lastRun>>
  BY DEF Start, stored
<1> QED
  BY <1>2, <1>3, <1>4, <1>5, JobMoves DEF MarketInv

\* A job receives an answer that is not older than a bar takes to become available.
LEMMA ReceiveInv ==
    ASSUME MarketInv, NEW j \in Jobs, NEW r, jobs' = Receive(j, r), jobs[j].pc = "fetch",
           Answer(r), r.at + Lag >= jobs[j].now,
           UNCHANGED <<clock, world, prices, conflicts, lost, lastRun>>, Answer(cache')
    PROVE  MarketInv'
<1> DEFINE l == jobs[j]
           b == Parsed(l, r)
           x == [l EXCEPT !.pc = "fetched", !.batch = b]
<1>1. Job(l, prices, clock)
  BY DEF MarketInv
<1>2. Answer(b) /\ b.at = r.at
  BY DEF Parsed, Answer
<1>3. jobs' = [jobs EXCEPT ![j] = x]
  BY DEF Receive, MarketInv
<1> HIDE DEF b
<1>4. /\ DOMAIN x = Fields /\ x.pc = "fetched" /\ x.batch = b /\ x.now = l.now
      /\ x.source = l.source
  BY <1>1 DEF Job, Fields
<1> HIDE DEF x
<1>5. Job(x, prices, clock)
  BY <1>1, <1>2, <1>4 DEF Job
<1> QED
  BY <1>3, <1>4, <1>5, JobMoves

LEMMA FromCacheInv == ASSUME MarketInv, NEW j \in Jobs, FromCache(j) PROVE MarketInv'
<1>1. /\ jobs[j].pc = "fetch" /\ clock - cache.at <= CacheTicks /\ jobs' = Receive(j, cache)
      /\ UNCHANGED <<clock, world, cache, prices, conflicts, lost, lastRun>>
  BY DEF FromCache, CacheHit, stored
<1>2. Answer(cache) /\ Answer(cache')
  BY <1>1 DEF MarketInv
<1>3. cache.at + Lag >= jobs[j].now
  <2>1. cache.at \in Nat /\ clock \in Nat /\ jobs[j].now \in Nat /\ jobs[j].now <= clock
    BY DEF MarketInv, Answer, Job
  <2> QED
    BY <1>1, <2>1, CacheAssumption, RulesAssumption
<1> QED
  BY <1>1, <1>2, <1>3, ReceiveInv

LEMMA FiniteActions ==
    ASSUME world \in Worlds, NEW s, NEW from, NEW t
    PROVE  IsFiniteSet(ActionsShown(s, from, t))
<1> DEFINE known == {a \in world.actions : from <= a.ex /\ a.ex <= DateOf(t)}
           past == {a \in world.actions : a.ex <= DateOf(t)}
           restated(v) == [v EXCEPT !.ratio =
               Over(v.ratio, Product({x \in Splits(past) : v.ex < x.ex}, LAMBDA x : x.ratio))]
           cash == {restated(v) : v \in Dividends(past)}
<1>1. IsFiniteSet(known) /\ IsFiniteSet(past)
  BY WorldsAssumption, FS_Subset
<1>2. IsFiniteSet(Splits(known)) /\ IsFiniteSet(Dividends(past))
  <2> HIDE DEF known, past
  <2>1. Splits(known) \subseteq known /\ Dividends(past) \subseteq past
    BY DEF Splits, Dividends
  <2> QED
    BY <1>1, <2>1, FS_Subset
<1>3. IsFiniteSet(cash)
  <2> DEFINE V == Dividends(past)
             f == [v \in V |-> restated(v)]
  <2>1. IsFiniteSet(V)
    BY <1>2
  <2>2. f \in Surjection(V, cash)
    <3> HIDE DEF restated, past
    <3>1. f \in [V -> cash] /\ \A c \in cash : \E v \in V : f[v] = c
      OBVIOUS
    <3> QED
      BY <3>1 DEF Surjection
  <2> HIDE DEF f, V, cash
  <2> QED
    BY <2>1, <2>2, FS_Surjection
<1>4. RestatedDividends(past) = cash
  BY DEF RestatedDividends
<1>5. IsFiniteSet({v \in RestatedDividends(past) : from <= v.ex})
  BY <1>3, <1>4, FS_Subset
<1>6. ActionsShown(s, from, t) \in {known, Splits(known) \cup {v \in RestatedDividends(past) : from <= v.ex}}
  BY DEF ActionsShown
<1> HIDE DEF known, past
<1> QED
  BY <1>1, <1>2, <1>5, <1>6, FS_Union

LEMMA FromSourceInv == ASSUME MarketInv, NEW j \in Jobs, FromSource(j) PROVE MarketInv'
<1> DEFINE l == jobs[j]
           t == IF l.source = "yahoo" THEN clock ELSE l.now
<1>1. PICK flaw \in {Flawless} \cup Flaws :
         LET r == Response(l.source, l.from, t, flaw) IN
         /\ jobs' = Receive(j, [r EXCEPT !.to = l.to])
         /\ cache' = IF l.source = "yahoo" THEN [r EXCEPT !.to = l.to] ELSE cache
  BY DEF FromSource
<1> DEFINE r == [Response(l.source, l.from, t, flaw) EXCEPT !.to = l.to]
<1>2. jobs' = Receive(j, r) /\ cache' = IF l.source = "yahoo" THEN r ELSE cache
  BY <1>1
<1>3. l.pc = "fetch" /\ UNCHANGED <<clock, world, prices, conflicts, lost, lastRun>>
  BY DEF FromSource, stored
<1>4. clock \in Nat /\ l.now \in Nat /\ l.now <= clock /\ t \in Nat /\ t >= l.now
  BY DEF MarketInv, Job
<1>5. Answer(r) /\ r.at = t
  <2>1. IsFiniteSet(ActionsShown(l.source, l.from, t))
    BY FiniteActions DEF MarketInv
  <2> QED
    BY <1>4, <2>1 DEF Response, Answer
<1> HIDE DEF r, t
<1>6. r.at + Lag >= l.now
  BY <1>4, <1>5, RulesAssumption
<1>7. Answer(cache')
  BY <1>2, <1>5 DEF MarketInv
<1> QED
  BY <1>2, <1>3, <1>5, <1>6, <1>7, ReceiveInv

\* A failed fetch and a death leave an idle job.
LEMMA ToIdle ==
    ASSUME MarketInv, NEW j \in Jobs, jobs' = [jobs EXCEPT ![j] = Idle],
           UNCHANGED <<clock, world, cache, prices, conflicts, lost>>,
           lastRun' \in {lastRun, "failed"}
    PROVE  MarketInv'
<1> DEFINE x == Idle
<1>1. Job(x, prices, clock) /\ x.pc # "store"
  BY IdleJob DEF MarketInv, Idle
<1>2. jobs' = [jobs EXCEPT ![j] = x] /\ Answer(cache')
  BY DEF MarketInv
<1> HIDE DEF x
<1> QED
  BY <1>1, <1>2, JobMoves

LEMMA LockInv == ASSUME MarketInv, NEW j \in Jobs, Lock(j) PROVE MarketInv'
<1> DEFINE l == jobs[j]
           x == [l EXCEPT !.pc = "store", !.seen = prices[l.source]]
<1>1. /\ l.pc = "fetched" /\ \A i \in Jobs \ {j} : jobs[i].pc # "store"
      /\ UNCHANGED <<clock, world, cache, prices, conflicts, lost, lastRun>>
  BY DEF Lock, LockFree, stored
<1>2. Job(l, prices, clock)
  BY DEF MarketInv
<1>3. jobs' = [jobs EXCEPT ![j] = x]
  BY DEF Lock, MarketInv
<1>4. /\ DOMAIN x = Fields /\ x.pc = "store" /\ x.seen = prices[l.source] /\ x.batch = l.batch
      /\ x.now = l.now /\ x.source = l.source
  BY <1>2 DEF Job, Fields
<1> HIDE DEF x
<1>5. Job(x, prices, clock)
  BY <1>1, <1>2, <1>4 DEF Job
<1>6. \A i \in Jobs : jobs'[i] = IF i = j THEN x ELSE jobs[i]
  BY <1>3 DEF MarketInv
<1>7. \A i \in Jobs : Job(jobs'[i], prices', clock')
  BY <1>1, <1>5, <1>6 DEF MarketInv
<1>8. OneHolder'
  BY <1>1, <1>6 DEF OneHolder
<1>9. TablesInv'
  BY <1>1 DEF MarketInv, TablesInv, Recorded
<1> QED
  BY <1>1, <1>3, <1>7, <1>8, <1>9 DEF MarketInv

\* Time passes, or the world or the record of an analysis changes.
LEMMA OutsideInv ==
    ASSUME MarketInv, UNCHANGED <<world, cache, prices, conflicts, lost, lastRun, jobs>>,
           clock' \in {clock, clock + 1}
    PROVE  MarketInv'
<1>1. clock' \in Nat /\ clock <= clock'
  BY DEF MarketInv
<1>2. \A j \in Jobs : Job(jobs[j], prices, clock')
  BY <1>1 DEF MarketInv, Job
<1>3. TablesInv' /\ OneHolder'
  BY DEF MarketInv, TablesInv, Recorded, OneHolder
<1> QED
  BY <1>1, <1>2, <1>3 DEF MarketInv

-----------------------------------------------------------------------------
(* The step that stores                                                      *)

\* A report accepts bars of sessions that are available to the job.
LEMMA AcceptedBars ==
    ASSUME NEW l
    PROVE  \A d \in Report(l).accepted : d \in Sessions /\ ~IncompleteAt(d, l.now)
<1> DEFINE A == Accepted(l.batch.bars, l.now)
<1>1. Report(l).accepted = A
  BY DEF Report, Validated
<1>2. \A d \in A : d \in Sessions /\ ~IncompleteAt(d, l.now)
  BY DEF Accepted
<1> QED
  BY <1>1, <1>2

\* A version that says something else extends a bar's versions.
LEMMA MoreVersions ==
    ASSUME NEW s, NEW d \in Sessions, NEW q, Bar(s, d, q), NEW row,
           q # <<>> => ~Same(q[Len(q)].value, row.value), row.at >= CloseOf(d)
    PROVE  Bar(s, d, Append(q, row)) /\ Len(Append(q, row)) = Len(q) + 1 /\ Len(q) \in Nat
<1>1. PICK S : q \in Seq(S)
  BY DEF Bar, Versions
<1> DEFINE T == S \cup {row}
           r == Append(q, row)
<1>2. q \in Seq(T) /\ row \in T
  BY <1>1, SeqMonotonic
<1> HIDE DEF T
<1>3. /\ r \in Seq(T) /\ Len(r) = Len(q) + 1 /\ Len(q) \in Nat
      /\ \A i \in 1 .. Len(q) : r[i] = q[i]
      /\ r[Len(q) + 1] = row
  BY <1>2, AppendProperties, LenProperties
<1>4. Len(q) > 0 => q # <<>>
  BY <1>2, EmptySeq
<1> HIDE DEF r
<1>5. ASSUME NEW i \in 1 .. Len(r) - 1 PROVE ~Same(r[i].value, r[i + 1].value)
  <2>1. CASE i = Len(q)
    BY <1>3, <1>4, <2>1
  <2>2. CASE i # Len(q)
    <3>1. i \in 1 .. Len(q) - 1 /\ r[i] = q[i] /\ r[i + 1] = q[i + 1]
      BY <1>3, <2>2
    <3> QED
      BY <3>1 DEF Bar, Versions
  <2> QED
    BY <2>1, <2>2
<1>6. ASSUME NEW i \in 1 .. Len(r) PROVE r[i].at >= CloseOf(d)
  <2>1. CASE i = Len(q) + 1
    BY <1>3, <2>1
  <2>2. CASE i # Len(q) + 1
    <3>1. i \in 1 .. Len(q) /\ r[i] = q[i]
      BY <1>3, <2>2
    <3> QED
      BY <3>1 DEF Bar
  <2> QED
    BY <2>1, <2>2
<1>7. Bar(s, d, r)
  BY <1>3, <1>5, <1>6 DEF Bar, Versions
<1> QED
  BY <1>3, <1>7 DEF r

LEMMA StoreInv == ASSUME MarketInv, NEW j \in Jobs, Store(j) PROVE MarketInv'
<1> DEFINE l == jobs[j]
           C == Changed(l)
           s == l.source
           new(d) == RowOf(l, d)
<1>1. /\ Job(l, prices, clock) /\ l.pc = "store" /\ s \in Sources /\ l.seen = prices[s]
      /\ Answer(l.batch) /\ l.batch.at + Lag >= l.now /\ l.now \in Nat
  BY DEF Store, MarketInv, Job
<1>2. ~Clash(l) /\ Stored(l) = C
  BY <1>1 DEF Clash, Stored
<1>3. \A d \in C : d \in Sessions /\ d \in Days /\ ~IncompleteAt(d, l.now)
  BY AcceptedBars, CalendarAssumption DEF Changed, Days
<1>4. /\ prices' = [prices EXCEPT ![s] =
             [d \in Days |-> IF d \in C THEN Append(@[d], new(d)) ELSE @[d]]]
      /\ conflicts' = conflicts \cup
             {[source |-> s, day |-> d, to |-> Len(prices[s][d]) + 1] :
                 d \in {e \in C : prices[s][e] # <<>>}}
      /\ ~lost' /\ lastRun' = StatusOf(l)
      /\ jobs' = [jobs EXCEPT ![j] = Idle]
      /\ UNCHANGED <<clock, world, cache>>
  BY <1>1, <1>2 DEF Store, MarketInv, TablesInv
<1>5. /\ DOMAIN prices' = Sources
      /\ \A r \in Sources : r # s => prices'[r] = prices[r]
      /\ prices'[s] = [d \in Days |-> IF d \in C THEN Append(prices[s][d], new(d))
                                     ELSE prices[s][d]]
  BY <1>1, <1>4 DEF MarketInv, TablesInv
<1>6. /\ \A r \in Sources, d \in Days : r # s \/ d \notin C => prices'[r][d] = prices[r][d]
      /\ \A d \in C : prices'[s][d] = Append(prices[s][d], new(d))
      /\ \A r \in Sources : DOMAIN prices'[r] = Days
  BY <1>1, <1>3, <1>5 DEF MarketInv, TablesInv
<1>7. ASSUME NEW d \in C
      PROVE  /\ prices[s][d] # <<>> =>
                   ~Same(prices[s][d][Len(prices[s][d])].value, new(d).value)
             /\ new(d).at >= CloseOf(d)
  <2>1. prices[s][d] # <<>> =>
           ~Same(prices[s][d][Len(prices[s][d])].value, new(d).value)
    BY <1>1 DEF Changed, CurrentVersion, RowOf
  <2>2. new(d).at = l.batch.at /\ l.batch.at \in Nat
    BY <1>1 DEF RowOf, Answer
  <2>3. CloseOf(d) \in Int /\ CloseOf(d) + Lag <= l.now
    BY <1>1, <1>3, RulesAssumption, CalendarAssumption DEF IncompleteAt, AvailableAt, CloseOf, Days
  <2> QED
    BY <1>1, <2>1, <2>2, <2>3, RulesAssumption
<1>8. ASSUME NEW d \in C
      PROVE  /\ Bar(s, d, prices'[s][d]) /\ Len(prices'[s][d]) = Len(prices[s][d]) + 1
             /\ Len(prices[s][d]) \in Nat
  <2> DEFINE q == prices[s][d]
             row == new(d)
  <2>1. Bar(s, d, q) /\ d \in Sessions
    BY <1>1, <1>3 DEF MarketInv, TablesInv
  <2>2. prices'[s][d] = Append(q, row)
    BY <1>6
  <2>3. (q # <<>> => ~Same(q[Len(q)].value, row.value)) /\ row.at >= CloseOf(d)
    BY <1>7
  <2> HIDE DEF q, row
  <2>4. Bar(s, d, Append(q, row)) /\ Len(Append(q, row)) = Len(q) + 1 /\ Len(q) \in Nat
    BY <2>1, <2>3, MoreVersions
  <2> QED
    BY <2>2, <2>4 DEF q
<1> HIDE DEF C, s, l
<1>9. ASSUME NEW r \in Sources, NEW d \in Days
      PROVE  Bar(r, d, prices'[r][d]) /\ Recorded(r, d)' = 2 .. Len(prices'[r][d])
  <2>1. Bar(r, d, prices[r][d]) /\ Recorded(r, d) = 2 .. Len(prices[r][d])
    BY DEF MarketInv, TablesInv
  <2>2. CASE r # s \/ d \notin C
    <3>1. prices'[r][d] = prices[r][d]
      BY <1>6, <2>2
    <3>2. {c \in conflicts' : c.source = r /\ c.day = d} = {c \in conflicts : c.source = r /\ c.day = d}
      BY <1>4, <2>2
    <3>3. Recorded(r, d)' = Recorded(r, d)
      BY <3>2 DEF Recorded
    <3> QED
      BY <2>1, <3>1, <3>3
  <2>3. CASE r = s /\ d \in C
    <3> DEFINE n == Len(prices[s][d])
               old == {c \in conflicts : c.source = s /\ c.day = d}
    <3>1. Bar(r, d, prices'[r][d]) /\ Len(prices'[r][d]) = n + 1 /\ n \in Nat
      BY <1>8, <2>3
    <3>2. prices[s][d] = <<>> <=> n = 0
      <4>1. PICK S : prices[s][d] \in Seq(S)
        BY <2>1, <2>3 DEF Bar, Versions
      <4> QED
        BY <4>1, EmptySeq
    <3>3. {c \in conflicts' : c.source = s /\ c.day = d}
          = old \cup (IF n = 0 THEN {} ELSE {[source |-> s, day |-> d, to |-> n + 1]})
      BY <1>4, <2>3, <3>2
    <3> DEFINE more == IF n = 0 THEN {} ELSE {n + 1}
               got == {c.to : c \in {x \in conflicts' : x.source = s /\ x.day = d}}
    <3>4. got = {c.to : c \in old} \cup more
      <4>1. CASE n = 0
        BY <3>3, <4>1
      <4>2. CASE n # 0
        <5> DEFINE z == [source |-> s, day |-> d, to |-> n + 1]
                   all == {x \in conflicts' : x.source = s /\ x.day = d}
        <5>1. all = old \cup {z} /\ z.to = n + 1
          BY <3>3, <4>2
        <5>2. more = {n + 1}
          BY <4>2
        <5>3. got = {c.to : c \in all}
          OBVIOUS
        <5> HIDE DEF z, all, old, more, got
        <5>4. {c.to : c \in old \cup {z}} = {c.to : c \in old} \cup {z.to}
          OBVIOUS
        <5> QED
          BY <5>1, <5>2, <5>3, <5>4
      <4> QED
        BY <4>1, <4>2
    <3>5. {c.to : c \in old} = 2 .. n
      BY <2>1, <2>3 DEF Recorded
    <3>6. got = 2 .. n + 1
      <4>1. n \in Nat /\ 2 .. n + 1 = (2 .. n) \cup more
        BY <3>1
      <4> HIDE DEF n, more, got, old
      <4> QED
        BY <4>1, <3>4, <3>5
    <3>7. Recorded(r, d)' = got
      BY <2>3 DEF Recorded
    <3> QED
      BY <2>3, <3>1, <3>6, <3>7
  <2> QED
    BY <2>2, <2>3
<1>10. conflicts' \subseteq [source: Sources, day: Days, to: Nat]
  <2>1. \A d \in C : [source |-> s, day |-> d, to |-> Len(prices[s][d]) + 1]
                      \in [source: Sources, day: Days, to: Nat]
    BY <1>1, <1>3, <1>8
  <2> QED
    BY <1>4, <2>1 DEF MarketInv, TablesInv
<1>11. TablesInv'
  <2>1. lastRun' \in {"rejected", "succeeded", "succeeded_with_warnings"}
    BY <1>4 DEF StatusOf
  <2>2. \A r \in Sources, d \in Days :
           Bar(r, d, prices'[r][d]) /\ Recorded(r, d)' = 2 .. Len(prices'[r][d])
    BY <1>9
  <2> QED
    BY <1>4, <1>5, <1>6, <1>10, <2>1, <2>2 DEF TablesInv
<1>12. \A i \in Jobs : Job(jobs'[i], prices', clock') /\ jobs'[i].pc # "store"
  <2>1. Job(Idle, prices', clock') /\ Idle.pc # "store"
    BY <1>4, IdleJob DEF MarketInv, Idle
  <2>2. ASSUME NEW i \in Jobs, i # j
        PROVE  Job(jobs'[i], prices', clock') /\ jobs'[i].pc # "store"
    <3>1. jobs'[i] = jobs[i] /\ Job(jobs[i], prices, clock) /\ jobs[i].pc # "store"
      BY <1>1, <1>4, <2>2 DEF MarketInv, OneHolder, l
    <3> QED
      BY <1>4, <3>1 DEF Job
  <2>3. jobs'[j] = Idle
    BY <1>4 DEF MarketInv
  <2> QED
    BY <2>1, <2>2, <2>3
<1>13. OneHolder'
  BY <1>12 DEF OneHolder
<1> QED
  BY <1>4, <1>11, <1>12, <1>13 DEF MarketInv

-----------------------------------------------------------------------------
LEMMA StepInv == MarketInv /\ [Next]_vars => MarketInv'
<1> SUFFICES ASSUME MarketInv, [Next]_vars PROVE MarketInv'
  OBVIOUS
<1>1. CASE Tick
  BY <1>1, OutsideInv DEF Tick, stored
<1>2. CASE Revise
  BY <1>2, OutsideInv DEF Revise, stored
<1>3. CASE Analyse
  BY <1>3, OutsideInv DEF Analyse, stored
<1>4. ASSUME NEW j \in Jobs,
             \/ Start(j) \/ FromCache(j) \/ FromSource(j) \/ Fail(j)
             \/ Lock(j) \/ Store(j) \/ Die(j)
      PROVE  MarketInv'
  <2>1. CASE Fail(j)
    BY <2>1, ToIdle DEF Fail
  <2>2. CASE Die(j)
    BY <2>2, ToIdle DEF Die, stored
  <2> QED
    BY <1>4, <2>1, <2>2, StartInv, FromCacheInv, FromSourceInv, LockInv, StoreInv
<1>5. CASE UNCHANGED vars
  BY <1>5, OutsideInv DEF vars
<1> QED
  BY <1>1, <1>2, <1>3, <1>4, <1>5 DEF Next

LEMMA Invariance == Spec => []MarketInv
<1> QED
  BY InitInv, StepInv, PTL DEF Spec

-----------------------------------------------------------------------------
(* Replay.  What an analysis reads is made of the versions known at its         *)
(* cut-off, and as long as nothing late is stored these stay what they were.    *)

\* A reading is made of the rows and the actions that are known.
SeriesOf(s, rows, acts) == Converted(rows, Basis(s), "split_adjusted", acts)

ReportOf(s, rows, acts, asOf) ==
    LET series == SeriesOf(s, rows, acts) IN
    Validated([d \in DOMAIN series |-> {series[d]}], asOf, <<Min(DOMAIN series), DateOf(asOf)>>,
              {a.ex : a \in acts})

StatusOfRead(s, rows, acts, asOf) ==
    IF s = None \/ DOMAIN rows = {} THEN "insufficient_data"
    ELSE IF ~ReportOf(s, rows, acts, asOf).usable THEN "data_unusable"
    ELSE IF Cardinality(DOMAIN rows) < MinHistory THEN "insufficient_data"
    ELSE "ok"

ReadingOf(s, rows, acts, asOf) ==
    LET known == s # None /\ DOMAIN rows # {} IN
    LET closes == SeriesOf(s, rows, acts) IN
    [source |-> s, status |-> StatusOfRead(s, rows, acts, asOf),
     closes |-> IF known THEN closes ELSE <<>>,
     fresh |-> IF known THEN Freshness(Max(DOMAIN closes), asOf) ELSE "UNKNOWN",
     quality |-> IF known THEN ReportOf(s, rows, acts, asOf).score ELSE 0]

LEMMA ReadingIsOfRows ==
    ASSUME NEW s, NEW asOf, NEW k
    PROVE  Reading(s, asOf, k) = ReadingOf(s, Rows(s, asOf, k), ActionsAsOf(s, asOf, k), asOf)
BY DEF Reading, ReadingOf, AgentStatus, StatusOfRead, StoredReport, ReportOf, Series, SeriesOf

\* A bounded set of positions has a greatest one.
LEMMA LastKnown ==
    ASSUME NEW n \in Nat, NEW K \in SUBSET (1 .. n), K # {}
    PROVE  Max(K) \in K
<1> DEFINE T == {n - i : i \in K}
<1>1. T \subseteq Nat /\ T # {}
  <2>1. PICK x \in K : TRUE
    OBVIOUS
  <2>2. n - x \in T
    BY <2>1
  <2>3. \A i \in K : n - i \in Nat
    OBVIOUS
  <2> QED
    BY <2>2, <2>3
<1> HIDE DEF T
<1>2. PICK m \in T : \A e \in T : ~(<<e, m>> \in OpToRel(<, Nat))
  BY <1>1, NatLessThanWellFounded, WFMin, Zenon
<1>3. PICK x \in K : m = n - x
  BY DEF T
<1>4. ASSUME NEW y \in K PROVE x >= y
  <2>1. n - y \in T /\ n - y \in Nat /\ m \in Nat
    BY <1>1 DEF T
  <2>2. ~(n - y < m)
    BY <1>2, <2>1 DEF OpToRel
  <2> QED
    BY <1>3, <2>2
<1> QED
  BY <1>3, <1>4 DEF Max

\* The versions known at a cut-off are the same ones in a later state of their sequence.
SameVersions(p, q, k) ==
    /\ Known(q, k) = Known(p, k)
    /\ \A i \in Known(p, k) : q[i] = p[i]

LEMMA SameLast ==
    ASSUME NEW p, NEW q, NEW k, \E S : p \in Seq(S), SameVersions(p, q, k), Known(p, k) # {}
    PROVE  q[Max(Known(q, k))] = p[Max(Known(p, k))]
<1>1. Len(p) \in Nat /\ Known(p, k) \in SUBSET (1 .. Len(p))
  BY LenProperties DEF Known
<1>2. Max(Known(p, k)) \in Known(p, k)
  BY <1>1, LastKnown
<1> QED
  BY <1>2 DEF SameVersions

\* A sequence of versions that has grown by versions of one time.
Grown(p, q, at) ==
    /\ \E S : q \in Seq(S)
    /\ Len(p) <= Len(q)
    /\ \A i \in 1 .. Len(p) : q[i] = p[i]
    /\ \A i \in Len(p) + 1 .. Len(q) : q[i].at = at

LEMMA LaterVersions ==
    ASSUME NEW p, \E S : p \in Seq(S), NEW at, NEW q, Grown(p, q, at), NEW k, ~(at <= k)
    PROVE  SameVersions(p, q, k)
<1>1. Len(p) \in Nat /\ Len(q) \in Nat /\ Len(p) <= Len(q)
  BY LenProperties DEF Grown
<1>2. 1 .. Len(q) = (1 .. Len(p)) \cup (Len(p) + 1 .. Len(q))
  BY <1>1
<1>3. /\ \A i \in 1 .. Len(p) : q[i] = p[i]
      /\ \A i \in Len(p) + 1 .. Len(q) : q[i].at = at
  BY DEF Grown
<1>4. Known(q, k) = Known(p, k)
  BY <1>2, <1>3 DEF Known
<1>5. \A i \in Known(p, k) : q[i] = p[i]
  BY <1>3 DEF Known
<1> QED
  BY <1>4, <1>5 DEF SameVersions

LEMMA GrownByNone == ASSUME NEW p, \E S : p \in Seq(S), NEW at PROVE Grown(p, p, at)
<1>1. Len(p) \in Nat
  BY LenProperties
<1> QED
  BY <1>1 DEF Grown

LEMMA GrownByOne ==
    ASSUME NEW p, \E S : p \in Seq(S), NEW row
    PROVE  Grown(p, Append(p, row), row.at)
<1>1. PICK S : p \in Seq(S)
  OBVIOUS
<1> DEFINE T == S \cup {row}
           q == Append(p, row)
<1>2. p \in Seq(T) /\ row \in T
  BY <1>1, SeqMonotonic
<1> HIDE DEF T
<1>3. /\ q \in Seq(T) /\ Len(q) = Len(p) + 1 /\ Len(p) \in Nat
      /\ \A i \in 1 .. Len(p) : q[i] = p[i]
      /\ q[Len(p) + 1] = row
  BY <1>2, AppendProperties, LenProperties
<1> HIDE DEF q
<1>4. \A i \in Len(p) + 1 .. Len(q) : i = Len(p) + 1
  BY <1>3
<1> QED
  BY <1>3, <1>4 DEF Grown, q

\* What an ingestion makes of the versions of an action: those there were, and one for
\* each action of its answer, of the time of the answer.
LEMMA ActionsGrow ==
    ASSUME NEW l, NEW key, \E S : actions[l.source][key] \in Seq(S),
           IsFiniteSet(l.batch.actions)
    PROVE  LET old == actions[l.source][key] IN
           LET new == ActionVersions(l, key) IN
           /\ Grown(old, new, l.batch.at)
           /\ \A i \in Len(old) + 1 .. Len(new) :
                 \E a \in ActionAt(l, key) : new[i].ratio = a.ratio
           /\ old # <<>> \/ ActionAt(l, key) # {} => new # <<>>
<1> DEFINE old == actions[l.source][key]
           A == ActionAt(l, key)
           told == SetToSeq(A)
           N == NewActions(l, key)
           rows == [i \in DOMAIN N |-> [ratio |-> N[i].ratio, at |-> l.batch.at]]
<1>1. told \in [1 .. Cardinality(A) -> A] /\ Cardinality(A) \in Nat
  <2>1. IsFiniteSet(A)
    BY FS_Subset DEF ActionAt
  <2>2. Cardinality(A) \in Nat /\ ExistsBijection(1 .. Cardinality(A), A)
    BY <2>1, FS_CardinalityType
  <2> HIDE DEF A
  <2>3. PICK f : f \in Bijection(1 .. Cardinality(A), A)
    BY <2>2 DEF ExistsBijection
  <2>4. f \in [1 .. Cardinality(A) -> A]
    BY <2>3 DEF Bijection, Injection
  <2>5. IsInjective(f)
    BY <2>3, <2>4 DEF Bijection, Injection, IsInjective
  <2> QED
    BY <2>2, <2>4, <2>5 DEF SetToSeq
<1>2. told \in Seq(A) /\ (A # {} => told # <<>>)
  <2>1. told \in Seq(A) /\ Len(told) = Cardinality(A)
    <3> HIDE DEF A, told
    <3> QED
      BY <1>1, LenProperties
  <2>2. A # {} => Cardinality(A) # 0
    BY FS_EmptySet, FS_Subset DEF ActionAt
  <2> HIDE DEF A, told
  <2> QED
    BY <2>1, <2>2
<1>3. N = told \/ (old # <<>> /\ told # <<>> /\ N = Tail(told))
  BY DEF NewActions
<1> HIDE DEF A, told, N
<1>4. N \in Seq(A) /\ (A # {} => old # <<>> \/ N # <<>>)
  <2>1. told # <<>> => Tail(told) \in Seq(A)
    BY <1>2, HeadTailProperties
  <2> QED
    BY <1>2, <1>3, <2>1
<1>5. DOMAIN N = 1 .. Len(N) /\ Len(N) \in Nat /\ \A i \in 1 .. Len(N) : N[i] \in A
  BY <1>4, LenProperties, ElementOfSeq
<1> DEFINE R == {rows[i] : i \in 1 .. Len(N)}
<1>6. rows \in Seq(R) /\ Len(rows) = Len(N)
  <2>1. rows \in [1 .. Len(N) -> R]
    BY <1>5
  <2> HIDE DEF rows, R
  <2> QED
    BY <1>5, <2>1, LenProperties
<1>7. \A i \in 1 .. Len(N) : rows[i].at = l.batch.at /\ rows[i].ratio = N[i].ratio
  BY <1>5
<1>8. ActionVersions(l, key) = old \o rows
  BY DEF ActionVersions, N
<1>9. PICK S : old \in Seq(S)
  OBVIOUS
<1> HIDE DEF rows, R
<1>10. old \in Seq(S \cup R) /\ rows \in Seq(S \cup R)
  BY <1>6, <1>9, SeqMonotonic
<1> DEFINE new == old \o rows
<1>11. /\ new \in Seq(S \cup R) /\ Len(new) = Len(old) + Len(rows) /\ Len(old) \in Nat
       /\ \A i \in 1 .. Len(old) : new[i] = old[i]
       /\ \A i \in Len(old) + 1 .. Len(new) : new[i] = rows[i - Len(old)] /\ i - Len(old) \in 1 .. Len(N)
  <2> HIDE DEF old
  <2>1. /\ new \in Seq(S \cup R) /\ Len(new) = Len(old) + Len(rows) /\ Len(old) \in Nat
        /\ \A i \in 1 .. Len(new) : new[i] = IF i <= Len(old) THEN old[i] ELSE rows[i - Len(old)]
    BY <1>10, ConcatProperties, LenProperties
  <2>2. ASSUME NEW i \in 1 .. Len(old) PROVE new[i] = old[i]
    <3>1. i \in 1 .. Len(new) /\ i <= Len(old)
      BY <1>5, <1>6, <2>1
    <3> HIDE DEF new
    <3> QED
      BY <2>1, <3>1
  <2>3. ASSUME NEW i \in Len(old) + 1 .. Len(new)
        PROVE  new[i] = rows[i - Len(old)] /\ i - Len(old) \in 1 .. Len(N)
    <3>1. i \in 1 .. Len(new) /\ ~(i <= Len(old)) /\ i - Len(old) \in 1 .. Len(N)
      BY <1>5, <1>6, <2>1
    <3> HIDE DEF new
    <3> QED
      BY <2>1, <3>1
  <2> QED
    BY <2>1, <2>2, <2>3
<1>12. \A i \in Len(old) + 1 .. Len(new) :
         new[i].at = l.batch.at /\ \E a \in A : new[i].ratio = a.ratio
  BY <1>5, <1>7, <1>11
<1>13. old # <<>> \/ A # {} => new # <<>>
  <2>1. (old # <<>> => Len(old) # 0) /\ (N # <<>> => Len(N) # 0)
    BY <1>4, <1>9, EmptySeq
  <2>2. Len(new) # 0 => new # <<>>
    OBVIOUS
  <2> HIDE DEF new
  <2> QED
    BY <1>4, <1>5, <1>6, <1>11, <2>1, <2>2
<1>14. Grown(old, new, l.batch.at)
  <2> HIDE DEF new, old
  <2> QED
    BY <1>5, <1>6, <1>11, <1>12 DEF Grown
<1> HIDE DEF new
<1> QED
  BY <1>8, <1>12, <1>13, <1>14 DEF new, A

\* Every table of versions holds sequences.
Sequenced ==
    /\ DOMAIN prices = Sources /\ DOMAIN actions = Sources
    /\ \A s \in Sources : DOMAIN prices[s] = Days /\ DOMAIN actions[s] = ActionKeys
    /\ \A s \in Sources, d \in Days : \E S : prices[s][d] \in Seq(S)
    /\ \A s \in Sources, key \in ActionKeys : \E S : actions[s][key] \in Seq(S)

\* What was known by k is still what was known by k.
NothingLate(k) ==
    /\ \A s \in Sources, d \in Days : SameVersions(prices[s][d], prices'[s][d], k)
    /\ \A s \in Sources, key \in ActionKeys : SameVersions(actions[s][key], actions'[s][key], k)

LEMMA SameReading ==
    ASSUME Sequenced, NEW s \in Sources, NEW asOf, NEW k, NothingLate(k)
    PROVE  Reading(s, asOf, k)' = Reading(s, asOf, k)
<1>1. Rows(s, asOf, k)' = Rows(s, asOf, k)
  <2> DEFINE D == {e \in Days : AvailableAt(e) <= asOf /\ Known(prices[s][e], k) # {}}
             E == {e \in Days : AvailableAt(e) <= asOf /\ Known(prices'[s][e], k) # {}}
  <2>1. D = E
    BY DEF NothingLate, SameVersions
  <2>2. ASSUME NEW d \in D
        PROVE  prices'[s][d][Max(Known(prices'[s][d], k))] = prices[s][d][Max(Known(prices[s][d], k))]
    BY SameLast DEF Sequenced, NothingLate
  <2>3. Rows(s, asOf, k) = [d \in D |-> prices[s][d][Max(Known(prices[s][d], k))].value]
    BY DEF Rows
  <2>4. Rows(s, asOf, k)' = [d \in E |-> prices'[s][d][Max(Known(prices'[s][d], k))].value]
    BY DEF Rows
  <2> HIDE DEF D, E
  <2> QED
    BY <2>1, <2>2, <2>3, <2>4
<1>2. ActionsAsOf(s, asOf, k)' = ActionsAsOf(s, asOf, k)
  <2> DEFINE D == {key \in ActionKeys : key[2] <= DateOf(asOf) /\ Known(actions[s][key], k) # {}}
             E == {key \in ActionKeys : key[2] <= DateOf(asOf) /\ Known(actions'[s][key], k) # {}}
             old(key) == [kind |-> key[1], ex |-> key[2],
                          ratio |-> actions[s][key][Max(Known(actions[s][key], k))].ratio]
             new(key) == [kind |-> key[1], ex |-> key[2],
                          ratio |-> actions'[s][key][Max(Known(actions'[s][key], k))].ratio]
  <2>1. D = E
    BY DEF NothingLate, SameVersions
  <2>2. ASSUME NEW key \in D PROVE new(key) = old(key)
    <3>1. actions'[s][key][Max(Known(actions'[s][key], k))] = actions[s][key][Max(Known(actions[s][key], k))]
      BY SameLast DEF Sequenced, NothingLate
    <3> QED
      BY <3>1
  <2>3. ActionsAsOf(s, asOf, k) = {old(key) : key \in D}
    BY DEF ActionsAsOf
  <2>4. ActionsAsOf(s, asOf, k)' = {new(key) : key \in E}
    BY DEF ActionsAsOf
  <2> HIDE DEF D, E, old, new
  <2> QED
    BY <2>1, <2>2, <2>3, <2>4
<1>3. Reading(s, asOf, k)' = ReadingOf(s, Rows(s, asOf, k)', ActionsAsOf(s, asOf, k)', asOf)
  BY DEF Reading, ReadingOf, AgentStatus, StatusOfRead, StoredReport, ReportOf, Series, SeriesOf
<1> QED
  BY <1>1, <1>2, <1>3, ReadingIsOfRows

ReplayInv ==
    /\ Sequenced
    /\ analysis # None /\ ~late =>
          /\ analysis.reading.source \in Sources
          /\ Reading(analysis.reading.source, analysis.asOf, analysis.knowledge) = analysis.reading

\* A step that stores nothing leaves a reading as it is.
LEMMA NothingStored ==
    ASSUME ReplayInv, UNCHANGED <<prices, actions, late, analysis>>
    PROVE  ReplayInv'
<1>1. Sequenced'
  BY DEF ReplayInv, Sequenced
<1>2. ASSUME analysis # None, ~late
      PROVE  Reading(analysis.reading.source, analysis.asOf, analysis.knowledge)'
             = Reading(analysis.reading.source, analysis.asOf, analysis.knowledge)
  BY DEF Reading, AgentStatus, StoredReport, Series, Rows, ActionsAsOf
<1> QED
  BY <1>1, <1>2 DEF ReplayInv

\* The source of an analysis is one of the sources that have rows.
LEMMA ChosenSource == Chosen # None => Chosen \in Sources
<1> DEFINE have == {s \in Sources : SourceCount(s) > 0}
<1> SUFFICES ASSUME Chosen # None PROVE Chosen \in Sources
  OBVIOUS
<1>1. have # {}
  BY DEF Chosen
<1>2. CASE \E s \in have : IsLicensed(s)
  <2>1. Chosen = CHOOSE s \in have : IsLicensed(s)
    BY <1>1, <1>2 DEF Chosen
  <2>2. Chosen \in have
    BY <1>2, <2>1
  <2> QED
    BY <2>2
<1>3. CASE ~ \E s \in have : IsLicensed(s)
  <2>1. Chosen = CHOOSE s \in have : \A r \in have \ {s} : SourceCount(r) <= SourceCount(s)
    BY <1>1, <1>3 DEF Chosen
  <2>2. have = {"yahoo"}
    BY <1>1, <1>3 DEF Sources, IsLicensed
  <2>3. \E s \in have : \A r \in have \ {s} : SourceCount(r) <= SourceCount(s)
    BY <2>2
  <2>4. Chosen \in have
    BY <2>1, <2>3
  <2> QED
    BY <2>4
<1> QED
  BY <1>2, <1>3

LEMMA AnalyseReplays == ASSUME ReplayInv, Analyse PROVE ReplayInv'
<1>1. UNCHANGED <<prices, actions, late>>
  BY DEF Analyse, stored
<1>2. PICK asOf \in {clock, clock - 3} :
         analysis' = [asOf |-> asOf, knowledge |-> clock, reading |-> Reading(Chosen, asOf, clock)]
  BY DEF Analyse
<1>3. Chosen \in Sources
  BY ChosenSource DEF Analyse
<1>4. Reading(Chosen, asOf, clock).source = Chosen
  BY DEF Reading
<1> DEFINE s == Chosen
           k == clock
<1>5. /\ analysis'.asOf = asOf /\ analysis'.knowledge = k
      /\ analysis'.reading = Reading(s, asOf, k) /\ analysis'.reading.source = s
  BY <1>2, <1>4
<1>6. Reading(analysis.reading.source, analysis.asOf, analysis.knowledge)' = Reading(s, asOf, k)
  <2>1. PICK r, a, c : r = s /\ a = asOf /\ c = k
    OBVIOUS
  <2>2. r = (analysis.reading.source)' /\ a = (analysis.asOf)' /\ c = (analysis.knowledge)'
    BY <1>5, <2>1
  <2>3. Reading(analysis.reading.source, analysis.asOf, analysis.knowledge)' = Reading(r, a, c)'
    BY <2>2 DEF Reading, AgentStatus, StoredReport, Series, Rows, ActionsAsOf
  <2>4. Reading(r, a, c)' = Reading(r, a, c)
    BY <1>1 DEF Reading, AgentStatus, StoredReport, Series, Rows, ActionsAsOf
  <2>5. Reading(s, asOf, k) = Reading(r, a, c)
    BY <2>1
  <2> QED
    BY <2>3, <2>4, <2>5
<1>7. Sequenced'
  BY <1>1 DEF ReplayInv, Sequenced
<1> QED
  BY <1>3, <1>5, <1>6, <1>7 DEF ReplayInv

\* A store adds versions of the time of the batch to the bars and the actions.
LEMMA StoreAppends ==
    ASSUME MarketInv, Sequenced, NEW j \in Jobs, Store(j)
    PROVE  LET at == jobs[j].batch.at IN
           /\ DOMAIN prices' = Sources /\ DOMAIN actions' = Sources
           /\ \A s \in Sources : DOMAIN prices'[s] = Days /\ DOMAIN actions'[s] = ActionKeys
           /\ \A s \in Sources, d \in Days : Grown(prices[s][d], prices'[s][d], at)
           /\ \A s \in Sources, key \in ActionKeys : Grown(actions[s][key], actions'[s][key], at)
<1> DEFINE l == jobs[j]
           at == l.batch.at
<1>1. l.source \in Sources /\ IsFiniteSet(l.batch.actions)
  BY DEF Store, MarketInv, Job, Answer
<1>2. /\ prices' = [prices EXCEPT ![l.source] =
            [d \in Days |-> IF d \in Stored(l) THEN Append(@[d], RowOf(l, d)) ELSE @[d]]]
      /\ actions' = IF Clash(l) THEN actions
            ELSE [actions EXCEPT ![l.source] = [key \in ActionKeys |-> ActionVersions(l, key)]]
  BY DEF Store
<1>3. ASSUME NEW s \in Sources, NEW d \in Days
      PROVE  Grown(prices[s][d], prices'[s][d], at)
  <2> DEFINE q == prices[s][d]
             row == RowOf(l, d)
  <2>1. row.at = at
    BY DEF RowOf
  <2>2. prices'[s][d] = q \/ prices'[s][d] = Append(q, row)
    BY <1>1, <1>2 DEF Sequenced
  <2>3. \E S : q \in Seq(S)
    BY DEF Sequenced
  <2> HIDE DEF q, row, at
  <2>4. Grown(q, q, at) /\ Grown(q, Append(q, row), at)
    BY <2>1, <2>3, GrownByNone, GrownByOne
  <2> QED
    BY <2>2, <2>4 DEF q
<1>4. ASSUME NEW s \in Sources, NEW key \in ActionKeys
      PROVE  Grown(actions[s][key], actions'[s][key], at)
  <2> DEFINE q == actions[s][key]
  <2>1. \/ actions'[s][key] = q
        \/ s = l.source /\ actions'[s][key] = ActionVersions(l, key)
    BY <1>1, <1>2 DEF Sequenced
  <2>2. \E S : q \in Seq(S)
    BY DEF Sequenced
  <2>3. s = l.source => Grown(q, ActionVersions(l, key), at)
    BY <1>1, <2>2, ActionsGrow
  <2> HIDE DEF q, at
  <2>4. Grown(q, q, at)
    BY <2>2, GrownByNone
  <2> QED
    BY <2>1, <2>3, <2>4 DEF q
<1>5. DOMAIN prices' = Sources /\ DOMAIN actions' = Sources
  BY <1>2 DEF Sequenced
<1>6. \A s \in Sources : DOMAIN prices'[s] = Days /\ DOMAIN actions'[s] = ActionKeys
  BY <1>1, <1>2 DEF Sequenced
<1> QED
  BY <1>3, <1>4, <1>5, <1>6

LEMMA StoreReplays == ASSUME MarketInv, ReplayInv, NEW j \in Jobs, Store(j) PROVE ReplayInv'
<1> DEFINE at == jobs[j].batch.at
<1>1. Sequenced
  BY DEF ReplayInv
<1>2. /\ DOMAIN prices' = Sources /\ DOMAIN actions' = Sources
      /\ \A s \in Sources : DOMAIN prices'[s] = Days /\ DOMAIN actions'[s] = ActionKeys
      /\ \A s \in Sources, d \in Days : Grown(prices[s][d], prices'[s][d], at)
      /\ \A s \in Sources, key \in ActionKeys : Grown(actions[s][key], actions'[s][key], at)
  BY <1>1, StoreAppends
<1>3. ASSUME NEW q, NEW p, Grown(q, p, at) PROVE \E S : p \in Seq(S)
  BY <1>3 DEF Grown
<1>4. ASSUME NEW q, NEW p, NEW k, Grown(q, p, at), \E S : q \in Seq(S), ~(at <= k)
      PROVE  SameVersions(q, p, k)
  BY <1>4, LaterVersions
<1> HIDE DEF at
<1>5. Sequenced'
  <2>1. \A s \in Sources, d \in Days : \E S : prices'[s][d] \in Seq(S)
    BY <1>1, <1>2, <1>3 DEF Sequenced
  <2>2. \A s \in Sources, key \in ActionKeys : \E S : actions'[s][key] \in Seq(S)
    BY <1>1, <1>2, <1>3 DEF Sequenced
  <2> QED
    BY <1>2, <2>1, <2>2 DEF Sequenced
<1>6. ASSUME (analysis # None /\ ~late)'
      PROVE  (/\ analysis.reading.source \in Sources
              /\ Reading(analysis.reading.source, analysis.asOf, analysis.knowledge)
                 = analysis.reading)'
  <2> DEFINE k == analysis.knowledge
             s == analysis.reading.source
             asOf == analysis.asOf
  <2>1. analysis' = analysis /\ analysis # None /\ ~late /\ ~(at <= k)
    BY <1>6 DEF Store, at
  <2>2. s \in Sources /\ Reading(s, asOf, k) = analysis.reading
    BY <2>1 DEF ReplayInv
  <2>3. ASSUME NEW c, c = k PROVE NothingLate(c)
    <3>1. \A r \in Sources, d \in Days : SameVersions(prices[r][d], prices'[r][d], c)
      BY <1>1, <1>2, <1>4, <2>1, <2>3 DEF Sequenced
    <3>2. \A r \in Sources, key \in ActionKeys : SameVersions(actions[r][key], actions'[r][key], c)
      BY <1>1, <1>2, <1>4, <2>1, <2>3 DEF Sequenced
    <3> QED
      BY <3>1, <3>2 DEF NothingLate
  <2>4. ASSUME NEW c, c = k, NEW r \in Sources, r = s, NEW a, a = asOf
        PROVE  Reading(r, a, c)' = Reading(r, a, c)
    BY <1>1, <2>3, <2>4, SameReading
  <2>5. Reading(analysis.reading.source, analysis.asOf, analysis.knowledge)' = Reading(s, asOf, k)
    <3>1. PICK c, r, a : c = k /\ r = s /\ a = asOf
      OBVIOUS
    <3>2. Reading(r, a, c)' = Reading(r, a, c)
      BY <2>2, <2>4, <3>1
    <3>3. r = (analysis.reading.source)' /\ a = (analysis.asOf)' /\ c = (analysis.knowledge)'
      BY <2>1, <3>1
    <3>4. Reading(analysis.reading.source, analysis.asOf, analysis.knowledge)' = Reading(r, a, c)'
      BY <3>3 DEF Reading, AgentStatus, StoredReport, Series, Rows, ActionsAsOf
    <3> QED
      BY <3>1, <3>2, <3>4
  <2> QED
    BY <2>1, <2>2, <2>5
<1> QED
  BY <1>5, <1>6 DEF ReplayInv

LEMMA StepReplays == MarketInv /\ ReplayInv /\ [Next]_vars => ReplayInv'
<1> SUFFICES ASSUME MarketInv, ReplayInv, [Next]_vars PROVE ReplayInv'
  OBVIOUS
<1>1. CASE Analyse
  BY <1>1, AnalyseReplays
<1>2. ASSUME NEW j \in Jobs, Store(j) PROVE ReplayInv'
  BY <1>2, StoreReplays
<1>3. CASE Tick \/ Revise \/ UNCHANGED vars
  BY <1>3, NothingStored DEF Tick, Revise, vars, stored
<1>4. ASSUME NEW j \in Jobs,
             Start(j) \/ FromCache(j) \/ FromSource(j) \/ Fail(j) \/ Lock(j) \/ Die(j)
      PROVE  ReplayInv'
  BY <1>4, NothingStored DEF Start, FromCache, FromSource, Fail, Lock, Die, stored
<1> QED
  BY <1>1, <1>2, <1>3, <1>4 DEF Next

LEMMA InitReplays == Init => ReplayInv
<1> SUFFICES ASSUME Init PROVE ReplayInv
  OBVIOUS
<1>1. <<>> \in Seq({})
  OBVIOUS
<1>2. /\ prices = [s \in Sources |-> [d \in Days |-> <<>>]]
      /\ actions = [s \in Sources |-> [key \in ActionKeys |-> <<>>]]
      /\ analysis = None
  BY DEF Init
<1>3. Sequenced
  BY <1>1, <1>2 DEF Sequenced
<1> QED
  BY <1>2, <1>3 DEF ReplayInv

-----------------------------------------------------------------------------
(* Products of fractions.                                                    *)

Fraction == Int \X Int

LEMMA FractionFacts ==
    /\ One \in Fraction
    /\ \A a \in Fraction : Times(One, a) = a /\ Times(a, One) = a
    /\ \A a, b \in Fraction :
          Times(a, b) \in Fraction /\ Over(a, b) \in Fraction /\ Minus(a, b) \in Fraction
    /\ \A a, b, c \in Fraction : Times(a, Times(b, c)) = Times(b, Times(a, c))
<1>1. \A a \in Fraction : a = <<a[1], a[2]>> /\ a[1] \in Int /\ a[2] \in Int
  BY DEF Fraction
<1>2. One \in Fraction
  BY DEF One, Fraction
<1>3. ASSUME NEW a \in Fraction PROVE Times(One, a) = a /\ Times(a, One) = a
  BY <1>1 DEF Times, One
<1>4. ASSUME NEW a \in Fraction, NEW b \in Fraction
      PROVE  Times(a, b) \in Fraction /\ Over(a, b) \in Fraction /\ Minus(a, b) \in Fraction
  <2>1. a[1] \in Int /\ a[2] \in Int /\ b[1] \in Int /\ b[2] \in Int
    BY <1>1
  <2>2. /\ a[1] * b[1] \in Int /\ a[2] * b[2] \in Int /\ a[1] * b[2] \in Int /\ a[2] * b[1] \in Int
        /\ a[1] * b[2] - b[1] * a[2] \in Int
    BY <2>1
  <2> QED
    BY <2>2 DEF Times, Over, Minus, Fraction
<1>5. ASSUME NEW a \in Fraction, NEW b \in Fraction, NEW c \in Fraction
      PROVE  Times(a, Times(b, c)) = Times(b, Times(a, c))
  <2>1. /\ a[1] \in Int /\ a[2] \in Int /\ b[1] \in Int /\ b[2] \in Int
        /\ c[1] \in Int /\ c[2] \in Int
    BY <1>1
  <2>2. \A x, y, z \in Int : x * (y * z) = y * (x * z)
    OBVIOUS
  <2> QED
    BY <2>1, <2>2 DEF Times
<1> QED
  BY <1>2, <1>3, <1>4, <1>5

LEMMA SomeLeast ==
    ASSUME NEW K \in SUBSET Nat, K # {}
    PROVE  \E m \in K : \A i \in K : m <= i
<1>1. PICK m \in K : \A e \in K : ~(<<e, m>> \in OpToRel(<, Nat))
  BY NatLessThanWellFounded, WFMin, Zenon
<1>2. ASSUME NEW e \in K PROVE m <= e
  <2>1. ~(e < m) /\ e \in Nat /\ m \in Nat
    BY <1>1 DEF OpToRel
  <2> QED
    BY <2>1
<1> QED
  BY <1>2

\* What holds of a subset if it holds of it without any of its elements holds of all.
LEMMA SubsetInduction ==
    ASSUME NEW S, IsFiniteSet(S), NEW T,
           \A u \in SUBSET S : (\A x \in u : u \ {x} \in T) => u \in T
    PROVE  SUBSET S \subseteq T
<1> DEFINE Bad == {Cardinality(u) : u \in {v \in SUBSET S : v \notin T}}
<1> SUFFICES ASSUME ~(SUBSET S \subseteq T) PROVE FALSE
  OBVIOUS
<1>1. Bad \in SUBSET Nat /\ Bad # {}
  BY FS_Subset, FS_CardinalityType
<1>2. PICK m \in Bad : \A i \in Bad : m <= i
  BY <1>1, SomeLeast
<1>3. PICK u \in SUBSET S : u \notin T /\ m = Cardinality(u)
  BY <1>2
<1>4. ASSUME NEW x \in u PROVE u \ {x} \in T
  <2>1. IsFiniteSet(u)
    BY FS_Subset
  <2>2. Cardinality(u \ {x}) = m - 1
    BY <1>3, <2>1, FS_RemoveElement
  <2>3. m - 1 \notin Bad
    <3> HIDE DEF Bad
    <3> QED
      BY <1>1, <1>2
  <2> QED
    BY <2>2, <2>3
<1> QED
  BY <1>3, <1>4

\* The element a product takes next, and the product of a set with that of the rest.
Taken(s) == CHOOSE x \in s : TRUE
ProductStep(it, f, s) == IF s = {} THEN One ELSE Times(f[Taken(s)], it[s \ {Taken(s)}])

\* it is the product of f over every subset of S, taken element by element.
IsProduct(it, f, S) == it = [s \in SUBSET S |-> ProductStep(it, f, s)]

LEMMA RestOf ==
    ASSUME NEW S, IsFiniteSet(S), NEW s \in SUBSET S, s # {}
    PROVE  /\ Taken(s) \in s /\ s \ {Taken(s)} \in SUBSET S
           /\ Cardinality(s) \in Nat \ {0}
           /\ Cardinality(s \ {Taken(s)}) = Cardinality(s) - 1
<1>1. Taken(s) \in s
  BY DEF Taken
<1>2. IsFiniteSet(s)
  BY FS_Subset
<1>3. /\ Cardinality(s \ {Taken(s)}) = Cardinality(s) - 1
      /\ Cardinality(s) \in Nat /\ Cardinality(s \ {Taken(s)}) \in Nat
  BY <1>1, <1>2, FS_RemoveElement, FS_CardinalityType
<1> QED
  BY <1>1, <1>3

LEMMA ProductExists ==
    ASSUME NEW S, IsFiniteSet(S), NEW f
    PROVE  \E it : IsProduct(it, f, S)
<1> DEFINE Upto(n) == {s \in SUBSET S : Cardinality(s) <= n}
           Partial(it, n) == it = [s \in Upto(n) |-> ProductStep(it, f, s)]
           Bad == {n \in Nat : ~\E it : Partial(it, n)}
<1>1. \A s \in SUBSET S : Cardinality(s) \in Nat
  BY FS_Subset, FS_CardinalityType
<1>2. Bad = {}
  <2> SUFFICES ASSUME Bad # {} PROVE FALSE
    OBVIOUS
  <2>1. PICK m \in Bad : \A i \in Bad : m <= i
    BY SomeLeast
  <2>2. m # 0
    <3>1. \A s \in Upto(0) : s = {}
      <4> SUFFICES ASSUME NEW s \in Upto(0), s # {} PROVE FALSE
        OBVIOUS
      <4>1. s \in SUBSET S /\ Cardinality(s) \in Nat \ {0}
        BY RestOf
      <4> QED
        BY <4>1
    <3>2. Partial([s \in Upto(0) |-> One], 0)
      BY <3>1 DEF ProductStep
    <3>3. 0 \notin Bad
      <4> HIDE DEF Partial, Upto
      <4> QED
        BY <3>2
    <3> QED
      BY <2>1, <3>3
  <2>3. m - 1 \in Nat /\ m - 1 \notin Bad
    <3>1. m \in Nat
      OBVIOUS
    <3> HIDE DEF Bad
    <3> QED
      BY <2>1, <2>2, <3>1
  <2>4. PICK it : Partial(it, m - 1)
    BY <2>3
  <2> DEFINE jt == [s \in Upto(m) |-> ProductStep(it, f, s)]
  <2>5. ASSUME NEW s \in Upto(m - 1) PROVE s \in Upto(m) /\ jt[s] = it[s]
    <3>1. s \in Upto(m)
      BY <1>1, <2>1
    <3>2. it[s] = ProductStep(it, f, s)
      BY <2>4
    <3> QED
      BY <3>1, <3>2
  <2>6. ASSUME NEW s \in Upto(m), s # {} PROVE s \ {Taken(s)} \in Upto(m - 1)
    BY <2>1, <2>6, RestOf
  <2>7. Partial(jt, m)
    <3>1. ASSUME NEW s \in Upto(m) PROVE jt[s] = ProductStep(jt, f, s)
      BY <2>5, <2>6 DEF ProductStep
    <3> QED
      BY <3>1
  <2> HIDE DEF Partial, jt
  <2> QED
    BY <2>1, <2>7
<1>3. PICK it : Partial(it, Cardinality(S))
  BY <1>2, FS_CardinalityType
<1>4. Upto(Cardinality(S)) = SUBSET S
  BY FS_Subset
<1> QED
  BY <1>3, <1>4 DEF IsProduct

\* it is the product of f over every subset of S, and any element may be taken first.
Products(it, f, S) ==
    /\ it[{}] = One
    /\ \A u \in SUBSET S : it[u] \in Fraction /\ \A x \in u : it[u] = Times(f[x], it[u \ {x}])

Fractions(f, S) == \A x \in S : f[x] \in Fraction

LEMMA ProductSteps ==
    ASSUME NEW S, IsFiniteSet(S), NEW f, NEW it, IsProduct(it, f, S), Fractions(f, S)
    PROVE  Products(it, f, S)
<1> DEFINE Stepwise(u) == it[u] \in Fraction /\ \A x \in u : it[u] = Times(f[x], it[u \ {x}])
           T == {u \in SUBSET S : \A v \in SUBSET u : Stepwise(v)}
<1>1. \A u \in SUBSET S : it[u] = IF u = {} THEN One ELSE Times(f[Taken(u)], it[u \ {Taken(u)}])
  BY DEF IsProduct, ProductStep
<1>2. ASSUME NEW u \in SUBSET S, \A x \in u : u \ {x} \in T PROVE u \in T
  <2>1. ASSUME NEW v \in SUBSET u, v # u PROVE Stepwise(v)
    <3>1. PICK x \in u : x \notin v
      BY <2>1
    <3>2. v \in SUBSET (u \ {x}) /\ u \ {x} \in T
      BY <1>2, <3>1
    <3> QED
      BY <3>2
  <2>2. CASE u = {}
    <3>1. it[u] = One
      BY <1>1, <2>2
    <3> QED
      BY <2>2, <3>1, FractionFacts
  <2>3. CASE u # {}
    <3> DEFINE c == Taken(u)
    <3>1. c \in u /\ f[c] \in Fraction
      BY <2>3 DEF Taken, Fractions
    <3> HIDE DEF c, Stepwise
    <3>2. Stepwise(u \ {c})
      BY <2>1, <3>1
    <3>3. it[u] = Times(f[c], it[u \ {c}]) /\ it[u \ {c}] \in Fraction
      BY <1>1, <2>3, <3>2 DEF c, Stepwise
    <3>4. ASSUME NEW x \in u, x # c PROVE it[u] = Times(f[x], it[u \ {x}])
      <4> DEFINE v == (u \ {c}) \ {x}
      <4>1. Stepwise(u \ {x}) /\ Stepwise(v)
        BY <2>1, <3>1
      <4>2. x \in u \ {c} /\ c \in u \ {x} /\ v = (u \ {x}) \ {c}
        BY <3>1, <3>4
      <4>3. /\ it[u \ {c}] = Times(f[x], it[v]) /\ it[u \ {x}] = Times(f[c], it[v])
            /\ it[v] \in Fraction
        BY <3>2, <4>1, <4>2 DEF Stepwise
      <4>4. f[x] \in Fraction
        BY DEF Fractions
      <4> HIDE DEF v
      <4>5. Times(f[c], Times(f[x], it[v])) = Times(f[x], Times(f[c], it[v]))
        BY <3>1, <4>3, <4>4, FractionFacts
      <4> QED
        BY <3>3, <4>3, <4>5
    <3>5. ASSUME NEW x \in u PROVE it[u] = Times(f[x], it[u \ {x}])
      <4>1. CASE x = c
        BY <3>3, <4>1
      <4> QED
        BY <3>4, <4>1
    <3>6. it[u] \in Fraction
      BY <3>1, <3>3, FractionFacts
    <3>7. Stepwise(u)
      BY <3>5, <3>6 DEF Stepwise
    <3> QED
      BY <2>1, <3>7
  <2> QED
    BY <2>2, <2>3
<1>3. SUBSET S \subseteq T
  <2> HIDE DEF T
  <2> QED
    BY <1>2, SubsetInduction
<1>4. it[{}] = One
  BY <1>1
<1> QED
  BY <1>3, <1>4 DEF Products

\* The products over the subsets of W, each a fold of its own, are those of W.
LEMMA OneProduct ==
    ASSUME NEW W, IsFiniteSet(W), NEW f, Fractions(f, W), NEW p,
           \A S \in SUBSET W : \E jt : IsProduct(jt, f, S) /\ p[S] = jt[S]
    PROVE  Products(p, f, W)
<1>1. PICK it : Products(it, f, W)
  BY ProductExists, ProductSteps, Zenon
<1>2. ASSUME NEW S \in SUBSET W PROVE p[S] = it[S]
  <2>1. PICK jt : IsProduct(jt, f, S) /\ p[S] = jt[S]
    OBVIOUS
  <2>2. IsFiniteSet(S) /\ Fractions(f, S)
    BY FS_Subset DEF Fractions
  <2>3. Products(jt, f, S)
    BY <2>1, <2>2, ProductSteps
  <2> DEFINE T == {u \in SUBSET S : jt[u] = it[u]}
  <2>4. ASSUME NEW u \in SUBSET S, \A x \in u : u \ {x} \in T PROVE u \in T
    <3>1. CASE u = {}
      BY <1>1, <2>3, <3>1 DEF Products
    <3>2. CASE u # {}
      <4>1. PICK x \in u : TRUE
        BY <3>2
      <4>2. jt[u] = Times(f[x], jt[u \ {x}]) /\ it[u] = Times(f[x], it[u \ {x}])
        BY <1>1, <2>3 DEF Products
      <4> QED
        BY <2>4, <4>1, <4>2
    <3> QED
      BY <3>1, <3>2
  <2>5. SUBSET S \subseteq T
    <3> HIDE DEF T
    <3> QED
      BY <2>2, <2>4, SubsetInduction
  <2> QED
    BY <2>1, <2>5
<1>3. \A u \in SUBSET W : \A x \in u : u \ {x} \in SUBSET W
  OBVIOUS
<1>4. p[{}] = One
  BY <1>1, <1>2 DEF Products
<1>5. ASSUME NEW u \in SUBSET W
      PROVE  p[u] \in Fraction /\ \A x \in u : p[u] = Times(f[x], p[u \ {x}])
  BY <1>1, <1>2, <1>3 DEF Products
<1> QED
  BY <1>4, <1>5 DEF Products

\* The products of the model: of the ratios of splits, and of the dividends' factors.
RatioProduct(S) == Product(S, LAMBDA s : s.ratio)
Factor(series, v) == Minus(One, Over(v.ratio, CloseBefore(series, v.ex)))
FactorProduct(series, S) == Product(S, LAMBDA v : Factor(series, v))

LEMMA RatioProductIs ==
    ASSUME NEW W, NEW S \in SUBSET W, IsFiniteSet(W)
    PROVE  \E it : IsProduct(it, [x \in W |-> x.ratio], S) /\ RatioProduct(S) = it[S]
<1> DEFINE f == [x \in W |-> x.ratio]
           Folds(it) == it = [s \in SUBSET S |-> IF s = {} THEN One
                                ELSE Times((CHOOSE x \in s : TRUE).ratio, it[s \ {CHOOSE x \in s : TRUE}])]
<1>1. RatioProduct(S) = (CHOOSE it : Folds(it))[S]
  BY Zenon DEF RatioProduct, Product, MapThenFoldSet
<1>2. \A s \in SUBSET S : s # {} => f[Taken(s)] = (CHOOSE x \in s : TRUE).ratio
  BY DEF Taken
<1>3. ASSUME NEW it PROVE IsProduct(it, f, S) <=> Folds(it)
  <2> HIDE DEF f
  <2> QED
    BY <1>2 DEF IsProduct, ProductStep, Taken
<1>4. PICK it : IsProduct(it, f, S)
  BY FS_Subset, ProductExists, Zenon
<1> HIDE DEF Folds, f
<1>5. Folds(CHOOSE jt : Folds(jt))
  BY <1>3, <1>4
<1>6. IsProduct(CHOOSE jt : Folds(jt), f, S)
  BY <1>3, <1>5
<1> QED
  BY <1>1, <1>6 DEF f

LEMMA FactorProductIs ==
    ASSUME NEW W, NEW S \in SUBSET W, IsFiniteSet(W), NEW series
    PROVE  \E it : /\ IsProduct(it, [x \in W |-> Factor(series, x)], S)
                   /\ FactorProduct(series, S) = it[S]
<1> DEFINE f == [x \in W |-> Factor(series, x)]
           Folds(it) == it = [s \in SUBSET S |-> IF s = {} THEN One
                                ELSE Times(Factor(series, CHOOSE x \in s : TRUE),
                                           it[s \ {CHOOSE x \in s : TRUE}])]
<1>1. FactorProduct(series, S) = (CHOOSE it : Folds(it))[S]
  BY Zenon DEF FactorProduct, Product, MapThenFoldSet
<1>2. \A s \in SUBSET S : s # {} => f[Taken(s)] = Factor(series, CHOOSE x \in s : TRUE)
  BY DEF Taken
<1>3. ASSUME NEW it PROVE IsProduct(it, f, S) <=> Folds(it)
  <2> HIDE DEF f
  <2> QED
    BY <1>2 DEF IsProduct, ProductStep, Taken
<1>4. PICK it : IsProduct(it, f, S)
  BY FS_Subset, ProductExists, Zenon
<1> HIDE DEF Folds, f
<1>5. Folds(CHOOSE jt : Folds(jt))
  BY <1>3, <1>4
<1>6. IsProduct(CHOOSE jt : Folds(jt), f, S)
  BY <1>3, <1>5
<1> QED
  BY <1>1, <1>6 DEF f

LEMMA RatioLaws ==
    ASSUME NEW W, IsFiniteSet(W), \A x \in W : x.ratio \in Fraction
    PROVE  /\ RatioProduct({}) = One
           /\ \A S \in SUBSET W :
                 /\ RatioProduct(S) \in Fraction
                 /\ \A x \in S : RatioProduct(S) = Times(x.ratio, RatioProduct(S \ {x}))
<1> DEFINE f == [x \in W |-> x.ratio]
           p == [S \in SUBSET W |-> RatioProduct(S)]
<1>1. Fractions(f, W)
  BY DEF Fractions
<1>2. ASSUME NEW S \in SUBSET W PROVE \E jt : IsProduct(jt, f, S) /\ p[S] = jt[S]
  BY RatioProductIs
<1>3. Products(p, f, W)
  <2> HIDE DEF p, f
  <2> QED
    BY <1>1, <1>2, OneProduct
<1>4. \A S \in SUBSET W : p[S] = RatioProduct(S) /\ \A x \in S : S \ {x} \in SUBSET W
  OBVIOUS
<1>5. \A x \in W : f[x] = x.ratio
  OBVIOUS
<1> HIDE DEF p, f
<1> QED
  BY <1>3, <1>4, <1>5 DEF Products

LEMMA FactorLaws ==
    ASSUME NEW W, IsFiniteSet(W), NEW series, \A x \in W : Factor(series, x) \in Fraction
    PROVE  /\ FactorProduct(series, {}) = One
           /\ \A S \in SUBSET W :
                 /\ FactorProduct(series, S) \in Fraction
                 /\ \A x \in S : FactorProduct(series, S)
                                 = Times(Factor(series, x), FactorProduct(series, S \ {x}))
<1> DEFINE f == [x \in W |-> Factor(series, x)]
           p == [S \in SUBSET W |-> FactorProduct(series, S)]
<1>1. Fractions(f, W)
  BY DEF Fractions
<1>2. ASSUME NEW S \in SUBSET W PROVE \E jt : IsProduct(jt, f, S) /\ p[S] = jt[S]
  BY FactorProductIs
<1>3. Products(p, f, W)
  <2> HIDE DEF p, f
  <2> QED
    BY <1>1, <1>2, OneProduct
<1>4. \A S \in SUBSET W : p[S] = FactorProduct(series, S) /\ \A x \in S : S \ {x} \in SUBSET W
  OBVIOUS
<1>5. \A x \in W : f[x] = Factor(series, x)
  OBVIOUS
<1> HIDE DEF p, f
<1> QED
  BY <1>3, <1>4, <1>5 DEF Products

\* The cash of at most one dividend.
CashOf(S) ==
    MapThenFoldSet(LAMBDA x, y : <<x[1] * y[2] + y[1] * x[2], x[2] * y[2]>>, <<0, 1>>,
                   LAMBDA v : v.ratio, LAMBDA T : CHOOSE v \in T : TRUE, S)

LEMMA CashOfOne ==
    /\ CashOf({}) = <<0, 1>>
    /\ \A v : v.ratio \in Fraction => CashOf({v}) = v.ratio
<1> DEFINE Add(x, y) == <<x[1] * y[2] + y[1] * x[2], x[2] * y[2]>>
           Folds(it, S) == it = [s \in SUBSET S |-> IF s = {} THEN <<0, 1>>
                                  ELSE Add((CHOOSE x \in s : TRUE).ratio, it[s \ {CHOOSE x \in s : TRUE}])]
<1>1. ASSUME NEW S PROVE CashOf(S) = (CHOOSE it : Folds(it, S))[S]
  BY Zenon DEF CashOf, MapThenFoldSet
<1>2. CashOf({}) = <<0, 1>>
  <2>1. Folds([s \in SUBSET {} |-> <<0, 1>>], {})
    OBVIOUS
  <2> HIDE DEF Folds
  <2>2. Folds(CHOOSE it : Folds(it, {}), {})
    BY <2>1
  <2> QED
    BY <1>1, <2>2 DEF Folds
<1>3. ASSUME NEW v, v.ratio \in Fraction PROVE CashOf({v}) = v.ratio
  <2> DEFINE jt == [s \in SUBSET {v} |-> IF s = {} THEN <<0, 1>> ELSE Add(v.ratio, <<0, 1>>)]
  <2>1. \A s \in SUBSET {v} : s # {} => (CHOOSE x \in s : TRUE) = v /\ s \ {v} = {}
    OBVIOUS
  <2> HIDE DEF Add
  <2>2. Folds(jt, {v})
    <3>1. jt[{}] = <<0, 1>>
      OBVIOUS
    <3> QED
      BY <2>1, <3>1
  <2> HIDE DEF Folds, jt
  <2>3. Folds(CHOOSE it : Folds(it, {v}), {v})
    BY <2>2
  <2> DEFINE it == CHOOSE jj : Folds(jj, {v})
  <2>4. it[{}] = <<0, 1>> /\ it[{v}] = Add(v.ratio, it[{}])
    <3>1. Folds(it, {v})
      BY <2>3
    <3> HIDE DEF it
    <3> QED
      BY <2>1, <3>1 DEF Folds
  <2>5. Add(v.ratio, <<0, 1>>) = v.ratio
    BY <1>3 DEF Add, Fraction
  <2> QED
    BY <1>1, <2>4, <2>5
<1> QED
  BY <1>2, <1>3

LEMMA Commute == \A a, b \in Fraction : Times(a, b) = Times(b, a)
<1>1. \A x, y \in Int : x * y = y * x
  OBVIOUS
<1> QED
  BY <1>1 DEF Times, Fraction

\* A split of ratio R divides the earlier close u: the later close v gains by R.
LEMMA SplitReturn ==
    ASSUME NEW u \in Fraction, NEW v \in Fraction, NEW P \in Fraction, NEW R \in Fraction
    PROVE  Same(Over(Over(v, P), Over(u, Times(P, R))), Over(Times(v, R), u))
<1>1. ASSUME NEW u1 \in Int, NEW u2 \in Int, NEW v1 \in Int, NEW v2 \in Int,
             NEW p1 \in Int, NEW p2 \in Int, NEW r1 \in Int, NEW r2 \in Int
      PROVE  ((v1 * p2) * (u2 * (p1 * r1))) * ((v2 * r2) * u1)
             = ((v1 * r1) * u2) * ((v2 * p1) * (u1 * (p2 * r2)))
  OBVIOUS
<1>2. \A x \in Fraction : x = <<x[1], x[2]>> /\ x[1] \in Int /\ x[2] \in Int
  BY DEF Fraction
<1> QED
  BY <1>1, <1>2 DEF Same, Over, Times

\* The same of series that are scaled by T, without a dividend.
LEMMA ScaledReturn ==
    ASSUME NEW u \in Fraction, NEW v \in Fraction, NEW P \in Fraction, NEW R \in Fraction,
           NEW T \in Fraction
    PROVE  Same(Over(Times(Over(v, P), T), Times(Over(u, Times(P, R)), T)),
                Over(v, Minus(Over(u, R), <<0, 1>>)))
<1>1. ASSUME NEW u1 \in Int, NEW u2 \in Int, NEW v1 \in Int, NEW v2 \in Int,
             NEW p1 \in Int, NEW p2 \in Int, NEW r1 \in Int, NEW r2 \in Int,
             NEW t1 \in Int, NEW t2 \in Int
      PROVE  (((v1 * p2) * t1) * ((u2 * (p1 * r1)) * t2)) * (v2 * (u1 * r2))
             = (v1 * (u2 * r1)) * (((v2 * p1) * t2) * ((u1 * (p2 * r2)) * t1))
  OBVIOUS
<1>2. \A x \in Fraction : x[1] \in Int /\ x[2] \in Int
  BY DEF Fraction
<1>3. Minus(Over(u, R), <<0, 1>>) = <<u[1] * R[2], u[2] * R[1]>>
  <2>1. u[1] * R[2] \in Int /\ u[2] * R[1] \in Int
    BY <1>2
  <2> QED
    BY <2>1 DEF Minus, Over
<1> QED
  BY <1>1, <1>2, <1>3 DEF Same, Over, Times

\* With a dividend of cash c, whose factor on the close before is 1 - D / C.
LEMMA CashReturn ==
    ASSUME NEW u \in Fraction, NEW v \in Fraction, NEW P \in Fraction, NEW R \in Fraction,
           NEW T \in Fraction, NEW c \in Fraction
    PROVE  LET C == Over(u, Times(P, R)) IN
           Same(Over(Times(Over(v, P), T), Times(C, Times(Minus(One, Over(Over(c, P), C)), T))),
                Over(v, Minus(Over(u, R), c)))
<1>1. ASSUME NEW u1 \in Int, NEW u2 \in Int, NEW v1 \in Int, NEW v2 \in Int,
             NEW p1 \in Int, NEW p2 \in Int, NEW r1 \in Int, NEW r2 \in Int,
             NEW t1 \in Int, NEW t2 \in Int, NEW c2 \in Int, NEW k \in Int, NEW x \in Int
      PROVE  (((v1 * p2) * t1) * ((u2 * (p1 * r1)) * ((k * (c2 * (u1 * r2))) * t2))) * (v2 * x)
             = (v1 * ((u2 * r1) * c2)) * (((v2 * p1) * t2) * ((u1 * (p2 * r2)) * ((k * x) * t1)))
  OBVIOUS
<1>2. ASSUME NEW u1 \in Int, NEW u2 \in Int, NEW p1 \in Int, NEW p2 \in Int,
             NEW r1 \in Int, NEW r2 \in Int, NEW c1 \in Int, NEW c2 \in Int
      PROVE  /\ (c2 * p1) * (u1 * (p2 * r2)) = (p1 * p2) * (c2 * (u1 * r2))
             /\ (c1 * p2) * (u2 * (p1 * r1)) = (p1 * p2) * (c1 * (u2 * r1))
  OBVIOUS
<1>3. \A k, x, y \in Int : k * x - k * y = k * (x - y)
  OBVIOUS
<1>4. \A x \in Fraction : x[1] \in Int /\ x[2] \in Int
  BY DEF Fraction
<1> DEFINE C == Over(u, Times(P, R))
           F == Minus(One, Over(Over(c, P), C))
           k == P[1] * P[2]
           x == (u[1] * R[2]) * c[2] - c[1] * (u[2] * R[1])
           y == c[2] * (u[1] * R[2])
<1>5. k \in Int /\ x \in Int /\ y \in Int /\ c[1] * (u[2] * R[1]) \in Int
  BY <1>4
<1>6. Over(Over(c, P), C) = <<k * (c[1] * (u[2] * R[1])), k * y>>
  <2>1. Over(Over(c, P), C) = <<(c[1] * P[2]) * (u[2] * (P[1] * R[1])),
                                (c[2] * P[1]) * (u[1] * (P[2] * R[2]))>>
    BY DEF Over, Times
  <2> QED
    BY <1>2, <1>4, <2>1
<1>7. F = <<k * x, k * y>>
  <2>1. y = (u[1] * R[2]) * c[2]
    BY <1>4
  <2>2. F = <<1 * (k * y) - (k * (c[1] * (u[2] * R[1]))) * 1, 1 * (k * y)>>
    BY <1>6 DEF Minus, One
  <2> DEFINE z == c[1] * (u[2] * R[1])
  <2>3. x = y - z /\ z \in Int
    BY <1>5, <2>1
  <2> HIDE DEF x, y, z, k, F
  <2>4. k * y \in Int /\ k * z \in Int
    BY <1>5, <2>3
  <2>5. F = <<1 * (k * y) - (k * z) * 1, 1 * (k * y)>>
    BY <2>2 DEF z
  <2>6. F = <<k * y - k * z, k * y>>
    BY <2>4, <2>5
  <2>7. k * y - k * z = k * x
    BY <1>3, <1>5, <2>3
  <2> QED
    BY <2>6, <2>7
<1>8. Minus(Over(u, R), c) = <<x, (u[2] * R[1]) * c[2]>>
  BY DEF Minus, Over
<1> HIDE DEF F, x, k
<1>9. Over(Times(Over(v, P), T), Times(C, Times(F, T)))
      = <<((v[1] * P[2]) * T[1]) * ((u[2] * (P[1] * R[1])) * ((k * y) * T[2])),
          ((v[2] * P[1]) * T[2]) * ((u[1] * (P[2] * R[2])) * ((k * x) * T[1]))>>
  BY <1>7 DEF Over, Times
<1>10. Over(v, Minus(Over(u, R), c)) = <<v[1] * ((u[2] * R[1]) * c[2]), v[2] * x>>
  BY <1>8 DEF Over
<1>11. Same(Over(Times(Over(v, P), T), Times(C, Times(F, T))), Over(v, Minus(Over(u, R), c)))
  <2>1. /\ u[1] \in Int /\ u[2] \in Int /\ v[1] \in Int /\ v[2] \in Int
        /\ P[1] \in Int /\ P[2] \in Int /\ R[1] \in Int /\ R[2] \in Int
        /\ T[1] \in Int /\ T[2] \in Int /\ c[2] \in Int
    BY <1>4
  <2>2. (((v[1] * P[2]) * T[1]) * ((u[2] * (P[1] * R[1])) * ((k * y) * T[2]))) * (v[2] * x)
        = (v[1] * ((u[2] * R[1]) * c[2])) *
          (((v[2] * P[1]) * T[2]) * ((u[1] * (P[2] * R[2])) * ((k * x) * T[1])))
    BY <1>1, <1>5, <2>1
  <2> QED
    BY <1>9, <1>10, <2>2 DEF Same
<1> QED
  BY <1>11 DEF F

-----------------------------------------------------------------------------
(* Returns.  Between adjacent sessions of a series only the actions of the     *)
(* second one's date come in, and these are known with its bar.                *)

\* Raw closes by session, the actions that are known, and those of the world.
StockFacts(raw, known, W) ==
    /\ IsFiniteSet(W) /\ W \subseteq ActionType
    /\ \A a, b \in W : a.kind = b.kind /\ a.ex = b.ex => a = b
    /\ known \subseteq W
    /\ DOMAIN raw \subseteq Sessions
    /\ \A d \in DOMAIN raw : raw[d] \in Fraction /\ \A a \in W : a.ex = d => a \in known

LEMMA SessionNumbers == Sessions \subseteq 1 .. LastDay /\ LastDay \in Nat /\ Sessions \subseteq Int
BY CalendarAssumption

LEMMA ActionFacts ==
    \A a \in ActionType : a.ratio \in Fraction /\ a.ex \in Sessions /\ a.ex \in Int
<1> SUFFICES ASSUME NEW a \in ActionType
             PROVE  a.ratio \in Fraction /\ a.ex \in Sessions /\ a.ex \in Int
  OBVIOUS
<1>1. a.ratio \in (Nat \ {0}) \X (Nat \ {0}) /\ a.ex \in Sessions
  BY DEF ActionType
<1>2. (Nat \ {0}) \X (Nat \ {0}) \subseteq Int \X Int
  OBVIOUS
<1> QED
  BY <1>1, <1>2, SessionNumbers DEF Fraction

LEMMA AdjacentFacts ==
    ASSUME NEW raw, DOMAIN raw \subseteq Sessions, NEW p \in Adjacent(raw)
    PROVE  /\ p[1] \in DOMAIN raw /\ p[2] \in DOMAIN raw
           /\ p[1] \in Int /\ p[2] \in Int /\ p[1] < p[2]
           /\ \A d \in Sessions : p[1] < d => p[2] <= d
<1>1. /\ p[1] \in DOMAIN raw /\ p[2] \in DOMAIN raw /\ p[1] < p[2]
      /\ SessionsIn(p[1] + 1, p[2] - 1) = {}
  BY DEF Adjacent
<1>2. p[1] \in Int /\ p[2] \in Int
  BY <1>1, SessionNumbers
<1>3. ASSUME NEW d \in Sessions, p[1] < d, ~(p[2] <= d) PROVE FALSE
  <2>1. d \in Int
    BY SessionNumbers
  <2>2. d \in p[1] + 1 .. p[2] - 1
    BY <1>2, <1>3, <2>1
  <2> QED
    BY <1>1, <2>2 DEF SessionsIn
<1> QED
  BY <1>1, <1>2, <1>3

SplitsAfter(known, d) == {s \in Splits(known) : d < s.ex}
SplitsOn(W, d) == {s \in Splits(W) : s.ex = d}
SplitsIn(W, a, b) == {s \in Splits(W) : a < s.ex /\ s.ex <= b}

\* The splits from the first of two adjacent sessions on are those after the second and
\* that of its own date.
LEMMA SplitsOfGap ==
    ASSUME NEW raw, NEW known, NEW W, StockFacts(raw, known, W), NEW p \in Adjacent(raw)
    PROVE  /\ RatioProduct(SplitsAfter(known, p[1]))
              = Times(RatioProduct(SplitsAfter(known, p[2])), RatioProduct(SplitsOn(W, p[2])))
           /\ RatioProduct(SplitsAfter(known, p[2])) \in Fraction
           /\ RatioProduct(SplitsOn(W, p[2])) \in Fraction
           /\ SplitsIn(W, p[1], p[2]) = SplitsOn(W, p[2])
<1> DEFINE a == p[1]
           b == p[2]
           later == SplitsAfter(known, b)
           gap == SplitsOn(W, b)
           all == SplitsAfter(known, a)
<1>1. /\ a \in DOMAIN raw /\ b \in DOMAIN raw /\ a \in Int /\ b \in Int /\ a < b
      /\ \A d \in Sessions : a < d => b <= d
  BY AdjacentFacts DEF StockFacts
<1>2. \A s \in W : s.ratio \in Fraction /\ s.ex \in Sessions /\ s.ex \in Int
  BY ActionFacts DEF StockFacts
<1>3. gap \subseteq known
  BY <1>1 DEF StockFacts, Splits, SplitsOn
<1>4. all = later \cup gap
  <2>1. ASSUME NEW s \in Splits(known) PROVE a < s.ex <=> b < s.ex \/ s.ex = b
    <3>1. s \in W
      BY DEF Splits, StockFacts
    <3> QED
      BY <1>1, <1>2, <3>1
  <2>2. \A s \in gap : s \in Splits(known) /\ s.ex = b
    BY <1>3 DEF Splits, SplitsOn
  <2>3. \A s \in Splits(known) : s.ex = b => s \in gap
    BY DEF Splits, SplitsOn, StockFacts
  <2> HIDE DEF a, b, gap
  <2>4. \A s : s \in all <=> s \in later \/ s \in gap
    BY <2>1, <2>2, <2>3 DEF SplitsAfter
  <2> QED
    BY <2>4
<1>5. SplitsIn(W, a, b) = gap
  <2>1. ASSUME NEW s \in Splits(W) PROVE (a < s.ex /\ s.ex <= b) <=> s.ex = b
    BY <1>1, <1>2 DEF Splits
  <2> QED
    BY <2>1 DEF SplitsIn, SplitsOn
<1>6. later \in SUBSET W /\ gap \in SUBSET W /\ all \in SUBSET W
  BY DEF Splits, StockFacts, SplitsAfter, SplitsOn
<1>7. /\ RatioProduct({}) = One
      /\ \A S \in SUBSET W :
            /\ RatioProduct(S) \in Fraction
            /\ \A x \in S : RatioProduct(S) = Times(x.ratio, RatioProduct(S \ {x}))
  BY <1>2, RatioLaws DEF StockFacts
<1> HIDE DEF later, gap, all
<1>8. RatioProduct(all) = Times(RatioProduct(later), RatioProduct(gap))
  <2>1. CASE gap = {}
    <3>1. all = later
      BY <1>4, <2>1
    <3> QED
      BY <1>6, <1>7, <2>1, <3>1, FractionFacts
  <2>2. CASE gap # {}
    <3>1. PICK s \in gap : TRUE
      BY <2>2
    <3>2. gap = {s}
      <4>1. ASSUME NEW x \in gap PROVE x = s
        <5>1. x \in W /\ s \in W /\ x.kind = s.kind /\ x.ex = s.ex
          BY DEF gap, Splits, SplitsOn
        <5> QED
          BY <5>1 DEF StockFacts
      <4> QED
        BY <4>1
    <3>3. s \notin later
      BY <1>1 DEF gap, later, SplitsAfter, SplitsOn
    <3>4. s \in all /\ all \ {s} = later /\ gap \ {s} = {} /\ s \in W
      BY <1>4, <1>6, <3>2, <3>3
    <3>5. RatioProduct(all) = Times(s.ratio, RatioProduct(later))
      BY <1>6, <1>7, <3>4
    <3>6. RatioProduct(gap) = Times(s.ratio, One)
      BY <1>6, <1>7, <3>4
    <3>7. RatioProduct(gap) = s.ratio /\ s.ratio \in Fraction /\ RatioProduct(later) \in Fraction
      BY <1>2, <1>6, <1>7, <3>4, <3>6, FractionFacts
    <3> QED
      BY <3>5, <3>7, Commute
  <2> QED
    BY <2>1, <2>2
<1>9. RatioProduct(later) \in Fraction /\ RatioProduct(gap) \in Fraction
  BY <1>6, <1>7
<1> QED
  BY <1>5, <1>8, <1>9 DEF all, later, gap

\* A split-adjusted close.
LEMMA AdjustedClose ==
    ASSUME NEW raw, NEW known, NEW d \in DOMAIN raw
    PROVE  SplitAdjusted(raw, known)[d] = Over(raw[d], RatioProduct(SplitsAfter(known, d)))
BY DEF SplitAdjusted, RatioProduct, SplitsAfter

LEMMA AdjustedGains ==
    ASSUME NEW raw, NEW known, NEW W, StockFacts(raw, known, W), NEW p \in Adjacent(raw)
    PROVE  LET series == SplitAdjusted(raw, known) IN
           Same(Over(series[p[2]], series[p[1]]),
                Over(Times(raw[p[2]], RatioProduct(SplitsIn(W, p[1], p[2]))), raw[p[1]]))
<1> DEFINE P == RatioProduct(SplitsAfter(known, p[2]))
           R == RatioProduct(SplitsOn(W, p[2]))
<1>1. /\ RatioProduct(SplitsAfter(known, p[1])) = Times(P, R) /\ P \in Fraction /\ R \in Fraction
      /\ RatioProduct(SplitsIn(W, p[1], p[2])) = R
  BY SplitsOfGap
<1>2. p[1] \in DOMAIN raw /\ p[2] \in DOMAIN raw /\ raw[p[1]] \in Fraction /\ raw[p[2]] \in Fraction
  BY AdjacentFacts DEF StockFacts
<1>3. /\ SplitAdjusted(raw, known)[p[2]] = Over(raw[p[2]], P)
      /\ SplitAdjusted(raw, known)[p[1]] = Over(raw[p[1]], Times(P, R))
  BY <1>1, <1>2, AdjustedClose
<1> HIDE DEF P, R
<1> QED
  BY <1>1, <1>2, <1>3, SplitReturn

\* The greatest number of a set that has one.
LEMMA MaxIs ==
    ASSUME NEW S \in SUBSET Int, NEW m \in S, \A x \in S : x <= m
    PROVE  Max(S) = m
<1>1. m \in S /\ \A y \in S : m >= y
  OBVIOUS
<1>2. Max(S) \in S /\ \A y \in S : Max(S) >= y
  BY <1>1 DEF Max
<1>3. Max(S) \in Int /\ m \in Int /\ Max(S) >= m /\ Max(S) <= m
  BY <1>2
<1> QED
  BY <1>3

LEMMA MaxOfDays ==
    ASSUME NEW S \in SUBSET Sessions, S # {}
    PROVE  Max(S) \in S
<1>1. LastDay \in Nat /\ S \in SUBSET (1 .. LastDay)
  BY SessionNumbers
<1> QED
  BY <1>1, LastKnown

\* A dividend in today's shares.
Restate(known, v) ==
    [v EXCEPT !.ratio = Over(v.ratio, RatioProduct(SplitsAfter(known, v.ex)))]

LEMMA RestatedFacts ==
    ASSUME NEW raw, NEW known, NEW W, StockFacts(raw, known, W)
    PROVE  /\ RestatedDividends(known) = {Restate(known, v) : v \in Dividends(known)}
           /\ Dividends(RestatedDividends(known)) = RestatedDividends(known)
           /\ IsFiniteSet(RestatedDividends(known))
           /\ \A v \in Dividends(known) :
                 /\ Restate(known, v).ex = v.ex /\ v.ex \in Sessions
                 /\ Restate(known, v).ratio
                    = Over(v.ratio, RatioProduct(SplitsAfter(known, v.ex)))
                 /\ Restate(known, v).ratio \in Fraction
<1> DEFINE R(v) == Restate(known, v)
           RD == {R(v) : v \in Dividends(known)}
<1>1. RestatedDividends(known) = RD
  BY DEF RestatedDividends, RatioProduct, Restate, SplitsAfter
<1>2. \A v \in Dividends(known) : v \in ActionType /\ v.kind = "dividend" /\ v \in W
  BY DEF Dividends, StockFacts
<1>3. \A S \in SUBSET W : RatioProduct(S) \in Fraction
  <2>1. \A s \in W : s.ratio \in Fraction
    BY ActionFacts DEF StockFacts
  <2> QED
    BY <2>1, RatioLaws DEF StockFacts
<1>4. ASSUME NEW v \in Dividends(known)
      PROVE  /\ R(v).ex = v.ex /\ v.ex \in Sessions /\ R(v).kind = "dividend"
             /\ R(v).ratio = Over(v.ratio, RatioProduct(SplitsAfter(known, v.ex)))
             /\ R(v).ratio \in Fraction
  <2>1. DOMAIN v = {"kind", "ex", "ratio"} /\ v.kind = "dividend"
    BY <1>2 DEF ActionType
  <2>2. SplitsAfter(known, v.ex) \in SUBSET W
    BY DEF Splits, StockFacts, SplitsAfter
  <2>3. v.ratio \in Fraction /\ v.ex \in Sessions
    BY <1>2, ActionFacts
  <2> DEFINE x == Over(v.ratio, RatioProduct(SplitsAfter(known, v.ex)))
  <2>4. x \in Fraction
    BY <1>3, <2>2, <2>3, FractionFacts
  <2>5. R(v) = [v EXCEPT !.ratio = x]
    BY DEF Restate
  <2> HIDE DEF x, R
  <2>6. R(v).ex = v.ex /\ R(v).kind = v.kind /\ R(v).ratio = x
    BY <2>1, <2>5
  <2> QED
    BY <2>1, <2>3, <2>4, <2>6 DEF x
<1>5. Dividends(RD) = RD
  <2> HIDE DEF R
  <2> QED
    BY <1>4 DEF Dividends
<1>6. IsFiniteSet(RD)
  <2> DEFINE D == Dividends(known)
             g == [v \in D |-> R(v)]
  <2>1. IsFiniteSet(D)
    <3>1. D \in SUBSET W
      BY <1>2
    <3> QED
      BY <3>1, FS_Subset DEF StockFacts
  <2>2. g \in Surjection(D, RD)
    BY DEF Surjection
  <2> HIDE DEF D, g, RD
  <2> QED
    BY <2>1, <2>2, FS_Surjection
<1> HIDE DEF R
<1> QED
  BY <1>1, <1>4, <1>5, <1>6 DEF R

DividendsOn(W, d) == {v \in Dividends(W) : v.ex = d}

\* A dividend's factor is a fraction where there is a close before it.
LEMMA FactorIsFraction ==
    ASSUME NEW series, DOMAIN series \subseteq Sessions, \A d \in DOMAIN series : series[d] \in Fraction,
           NEW v, v.ratio \in Fraction, \E d \in DOMAIN series : d < v.ex
    PROVE  Factor(series, v) \in Fraction
<1> DEFINE before == {d \in DOMAIN series : d < v.ex}
<1>1. before \in SUBSET Sessions /\ before # {}
  OBVIOUS
<1>2. Max(before) \in before
  BY <1>1, MaxOfDays
<1>3. CloseBefore(series, v.ex) = series[Max(before)]
  BY DEF CloseBefore
<1>4. CloseBefore(series, v.ex) \in Fraction
  BY <1>2, <1>3
<1> QED
  BY <1>4, FractionFacts DEF Factor

\* The dividends that act on the first of two adjacent sessions are those that act on the
\* second and that of its own date.
LEMMA DividendsOfGap ==
    ASSUME NEW raw, NEW known, NEW W, StockFacts(raw, known, W), NEW p \in Adjacent(raw)
    PROVE  LET series == SplitAdjusted(raw, known) IN
           LET cash == RestatedDividends(known) IN
           LET after(d) == {v \in Inside(series, cash) : d < v.ex} IN
           LET gap == {v \in cash : v.ex = p[2]} IN
           after(p[1]) = after(p[2]) \cup gap /\ after(p[2]) \cap gap = {}
<1> DEFINE a == p[1]
           b == p[2]
           series == SplitAdjusted(raw, known)
           cash == RestatedDividends(known)
           inside == Inside(series, cash)
<1>1. /\ a \in DOMAIN raw /\ b \in DOMAIN raw /\ a \in Int /\ b \in Int /\ a < b
      /\ \A d \in Sessions : a < d => b <= d
  BY AdjacentFacts DEF StockFacts
<1>2. DOMAIN series = DOMAIN raw
  BY DEF SplitAdjusted
<1>3. ASSUME NEW v \in cash PROVE v.ex \in Sessions /\ v.ex \in Int
  <2>1. cash = {Restate(known, x) : x \in Dividends(known)}
    BY RestatedFacts
  <2>2. PICK x \in Dividends(known) : v = Restate(known, x)
    BY <2>1
  <2>3. v.ex = x.ex /\ x.ex \in Sessions
    BY <2>2, RestatedFacts
  <2> QED
    BY <2>3, SessionNumbers
<1>4. inside \subseteq cash
  BY RestatedFacts DEF Inside
<1>5. \A v \in cash : v.ex = b => v \in inside
  <2>1. Dividends(cash) = cash
    BY RestatedFacts
  <2> HIDE DEF series, cash
  <2> QED
    BY <1>1, <1>2, <2>1 DEF Inside
<1> HIDE DEF series, cash, inside, a, b
<1>6. \A v \in cash : a < v.ex <=> b < v.ex \/ v.ex = b
  BY <1>1, <1>3
<1>7. {v \in inside : a < v.ex} = {v \in inside : b < v.ex} \cup {v \in cash : v.ex = b}
  <2>1. \A v : (v \in inside /\ a < v.ex) <=> (v \in inside /\ b < v.ex) \/ (v \in cash /\ v.ex = b)
    BY <1>4, <1>5, <1>6
  <2> QED
    BY <2>1
<1>8. {v \in inside : b < v.ex} \cap {v \in cash : v.ex = b} = {}
  BY <1>1
<1> QED
  BY <1>7, <1>8 DEF series, cash, inside, a, b

\* A session's restated dividends are those of its date, in today's shares.
LEMMA DividendOfDate ==
    ASSUME NEW raw, NEW known, NEW W, StockFacts(raw, known, W), NEW b \in DOMAIN raw
    PROVE  LET P == RatioProduct(SplitsAfter(known, b)) IN
           LET gap == {v \in RestatedDividends(known) : v.ex = b} IN
           \/ gap = {} /\ CashOf(DividendsOn(W, b)) = <<0, 1>>
           \/ \E w, c : /\ gap = {w} /\ c \in Fraction /\ w.ratio = Over(c, P) /\ w.ex = b
                        /\ CashOf(DividendsOn(W, b)) = c
<1> DEFINE P == RatioProduct(SplitsAfter(known, b))
           gap == {v \in RestatedDividends(known) : v.ex = b}
           R(v) == Restate(known, v)
           on == DividendsOn(W, b)
<1>1. RestatedDividends(known) = {R(v) : v \in Dividends(known)}
  BY RestatedFacts
<1>2. \A v \in Dividends(known) :
         R(v).ex = v.ex /\ R(v).ratio = Over(v.ratio, RatioProduct(SplitsAfter(known, v.ex)))
  BY RestatedFacts
<1>3. \A v : v \in on <=> v \in Dividends(known) /\ v.ex = b
  BY DEF DividendsOn, Dividends, StockFacts
<1> HIDE DEF R
<1>4. gap = {R(v) : v \in on}
  <2>1. ASSUME NEW w \in gap PROVE w \in {R(v) : v \in on}
    <3>1. PICK v \in Dividends(known) : w = R(v)
      BY <1>1
    <3>2. v.ex = b
      BY <1>2, <3>1
    <3> HIDE DEF on
    <3> QED
      BY <1>3, <3>1, <3>2
  <2>2. ASSUME NEW v \in on PROVE R(v) \in gap
    <3> HIDE DEF on
    <3>1. v \in Dividends(known) /\ v.ex = b
      BY <1>3
    <3>2. R(v) \in RestatedDividends(known) /\ R(v).ex = b
      BY <1>1, <1>2, <3>1
    <3> QED
      BY <3>2
  <2> HIDE DEF gap, on
  <2> QED
    BY <2>1, <2>2
<1>5. CASE on = {}
  <2>1. gap = {}
    BY <1>4, <1>5
  <2>2. CashOf(on) = <<0, 1>>
    BY <1>5, CashOfOne
  <2> QED
    BY <2>1, <2>2
<1>6. CASE on # {}
  <2>1. PICK v \in on : TRUE
    BY <1>6
  <2>2. on = {v}
    <3>1. ASSUME NEW x \in on PROVE x = v
      <4>1. x \in W /\ v \in W /\ x.kind = v.kind /\ x.ex = v.ex
        BY <2>1 DEF DividendsOn, Dividends
      <4> QED
        BY <4>1 DEF StockFacts
    <3> QED
      BY <2>1, <3>1
  <2>3. v \in Dividends(known) /\ v.ex = b /\ v.ratio \in Fraction
    <3>1. v \in Dividends(known) /\ v.ex = b
      BY <1>3, <2>1
    <3>2. v \in ActionType
      BY <3>1 DEF Dividends, StockFacts
    <3> QED
      BY <3>1, <3>2, ActionFacts
  <2>4. gap = {R(v)}
    BY <1>4, <2>2
  <2>5. R(v).ex = b /\ R(v).ratio = Over(v.ratio, P)
    BY <1>2, <2>3
  <2>6. CashOf(on) = v.ratio
    BY <2>2, <2>3, CashOfOne
  <2> HIDE DEF gap, on, P
  <2>7. \E w, c : gap = {w} /\ c \in Fraction /\ w.ratio = Over(c, P) /\ w.ex = b /\ CashOf(on) = c
    BY <2>3, <2>4, <2>5, <2>6
  <2> QED
    BY <2>7 DEF gap, on, P
<1> QED
  BY <1>5, <1>6

LEMMA TotalClose ==
    ASSUME NEW series, NEW acts, NEW d \in DOMAIN series
    PROVE  TotalReturn(series, acts)[d]
           = Times(series[d], FactorProduct(series, {v \in Inside(series, acts) : d < v.ex}))
BY DEF TotalReturn, FactorProduct, Factor

LEMMA TotalGains ==
    ASSUME NEW raw, NEW known, NEW W, StockFacts(raw, known, W), NEW p \in Adjacent(raw)
    PROVE  LET series == TotalReturn(SplitAdjusted(raw, known), RestatedDividends(known)) IN
           Same(Over(series[p[2]], series[p[1]]),
                Over(raw[p[2]], Minus(Over(raw[p[1]], RatioProduct(SplitsOn(W, p[2]))),
                                      CashOf(DividendsOn(W, p[2])))))
<1> DEFINE a == p[1]
           b == p[2]
           series == SplitAdjusted(raw, known)
           cash == RestatedDividends(known)
           inside == Inside(series, cash)
           later == {v \in inside : b < v.ex}
           gap == {v \in cash : v.ex = b}
           all == {v \in inside : a < v.ex}
           P == RatioProduct(SplitsAfter(known, b))
           R == RatioProduct(SplitsOn(W, b))
           T == FactorProduct(series, later)
           u == raw[a]
           v == raw[b]
<1>1. /\ a \in DOMAIN raw /\ b \in DOMAIN raw /\ a \in Int /\ b \in Int /\ a < b
      /\ \A d \in Sessions : a < d => b <= d
  BY AdjacentFacts DEF StockFacts
<1>2. P \in Fraction /\ R \in Fraction /\ RatioProduct(SplitsAfter(known, a)) = Times(P, R)
  BY SplitsOfGap
<1>3. u \in Fraction /\ v \in Fraction
  BY <1>1 DEF StockFacts
<1>4. DOMAIN series = DOMAIN raw /\ DOMAIN series \subseteq Sessions
  BY DEF SplitAdjusted, StockFacts
<1>5. ASSUME NEW d \in DOMAIN series PROVE series[d] \in Fraction
  <2>1. SplitsAfter(known, d) \in SUBSET W /\ \A s \in W : s.ratio \in Fraction
    BY ActionFacts DEF SplitsAfter, Splits, StockFacts
  <2>2. RatioProduct(SplitsAfter(known, d)) \in Fraction
    BY <2>1, RatioLaws DEF StockFacts
  <2>3. raw[d] \in Fraction
    BY <1>4 DEF StockFacts
  <2> QED
    BY <1>4, <2>2, <2>3, AdjustedClose, FractionFacts
<1>6. series[b] = Over(v, P) /\ series[a] = Over(u, Times(P, R))
  BY <1>1, <1>2, AdjustedClose
<1>7. ASSUME NEW x \in inside PROVE Factor(series, x) \in Fraction
  <2>1. x \in cash /\ \E d \in DOMAIN series : d < x.ex
    BY RestatedFacts DEF Inside
  <2>2. x.ratio \in Fraction
    BY <2>1, RestatedFacts
  <2> HIDE DEF series
  <2> QED
    BY <1>4, <1>5, <2>1, <2>2, FactorIsFraction
<1>8. IsFiniteSet(inside) /\ inside \subseteq cash
  <2>1. inside \subseteq cash /\ IsFiniteSet(cash)
    BY RestatedFacts DEF Inside
  <2> QED
    BY <2>1, FS_Subset
<1>9. all = later \cup gap /\ later \cap gap = {}
  BY DividendsOfGap
<1>10. /\ TotalReturn(series, cash)[b] = Times(series[b], T)
       /\ TotalReturn(series, cash)[a] = Times(series[a], FactorProduct(series, all))
  <2> DEFINE after(d) == {x \in inside : d < x.ex}
  <2>1. ASSUME NEW d \in DOMAIN series
        PROVE  TotalReturn(series, cash)[d] = Times(series[d], FactorProduct(series, after(d)))
    BY TotalClose
  <2>2. a \in DOMAIN series /\ b \in DOMAIN series
    BY <1>1, <1>4
  <2>3. after(a) = all /\ after(b) = later
    OBVIOUS
  <2> HIDE DEF series, cash, after, all, later
  <2> QED
    BY <2>1, <2>2, <2>3
<1>11. CloseBefore(series, b) = series[a]
  <2> DEFINE before == {d \in DOMAIN series : d < b}
  <2>1. a \in before /\ before \in SUBSET Int /\ before \subseteq Sessions
    BY <1>1, <1>4, SessionNumbers
  <2>2. ASSUME NEW d \in before PROVE d <= a
    <3>1. d \in Int /\ d < b /\ d \in Sessions
      BY <2>1
    <3> QED
      BY <1>1, <3>1
  <2>3. CloseBefore(series, b) = series[Max(before)]
    BY DEF CloseBefore
  <2> HIDE DEF before, series
  <2>4. Max(before) = a
    BY <2>1, <2>2, MaxIs
  <2> QED
    BY <2>3, <2>4
<1>12. /\ \/ gap = {} /\ CashOf(DividendsOn(W, b)) = <<0, 1>>
          \/ \E w, c : /\ gap = {w} /\ c \in Fraction /\ w.ratio = Over(c, P) /\ w.ex = b
                       /\ CashOf(DividendsOn(W, b)) = c
  BY <1>1, DividendOfDate
<1>13. /\ all \in SUBSET inside /\ later \in SUBSET inside
  OBVIOUS
<1> HIDE DEF series, cash, inside, later, gap, all, P, R, u, v
<1>14. /\ FactorProduct(series, {}) = One
       /\ \A S \in SUBSET inside :
             /\ FactorProduct(series, S) \in Fraction
             /\ \A x \in S : FactorProduct(series, S)
                             = Times(Factor(series, x), FactorProduct(series, S \ {x}))
  BY <1>7, <1>8, FactorLaws
<1>15. T \in Fraction
  BY <1>13, <1>14
<1> DEFINE goal == Same(Over(TotalReturn(series, cash)[b], TotalReturn(series, cash)[a]),
                        Over(v, Minus(Over(u, R), CashOf(DividendsOn(W, b)))))
<1>16. CASE gap = {} /\ CashOf(DividendsOn(W, b)) = <<0, 1>>
  <2>1. all = later
    BY <1>9, <1>16
  <2>2. TotalReturn(series, cash)[a] = Times(series[a], T)
    BY <1>10, <2>1
  <2> HIDE DEF T
  <2>3. goal
    BY <1>2, <1>3, <1>6, <1>10, <1>15, <1>16, <2>2, ScaledReturn
  <2> QED
    BY <2>3 DEF u, v, R, series, cash
<1>17. ASSUME NEW w, NEW c \in Fraction, gap = {w}, w.ratio = Over(c, P), w.ex = b,
              CashOf(DividendsOn(W, b)) = c
       PROVE  goal
  <2>1. w \in all /\ all \ {w} = later
    BY <1>9, <1>17
  <2>2. FactorProduct(series, all) = Times(Factor(series, w), T)
    BY <1>13, <1>14, <2>1
  <2>3. Factor(series, w) = Minus(One, Over(Over(c, P), series[a]))
    BY <1>11, <1>17 DEF Factor
  <2>4. TotalReturn(series, cash)[a]
        = Times(series[a], Times(Minus(One, Over(Over(c, P), series[a])), T))
    BY <1>10, <2>2, <2>3
  <2> HIDE DEF T
  <2>5. Same(Over(Times(Over(v, P), T),
                  Times(Over(u, Times(P, R)), Times(Minus(One, Over(Over(c, P), Over(u, Times(P, R)))), T))),
             Over(v, Minus(Over(u, R), c)))
    BY <1>2, <1>3, <1>15, CashReturn
  <2> QED
    BY <1>6, <1>10, <1>17, <2>4, <2>5
<1>18. goal
  <2> HIDE DEF goal
  <2>1. CASE gap = {} /\ CashOf(DividendsOn(W, b)) = <<0, 1>>
    BY <1>16, <2>1 DEF goal, u, v, R, series, cash
  <2> QED
    BY <1>12, <1>17, <2>1
<1> QED
  BY <1>18 DEF u, v, R, series, cash

-----------------------------------------------------------------------------
(* What the exchange's bars and actions are in every state.                    *)

\* Versions of a bar, and of an action of the world, stored by t.
RowVersions(q, t) ==
    \A i \in 1 .. Len(q) : q[i].value \in Fraction /\ q[i].at \in Nat /\ q[i].at <= t

ActionRows(key, q, W, t) ==
    \A i \in 1 .. Len(q) :
        /\ q[i].at \in Nat /\ q[i].at <= t
        /\ [kind |-> key[1], ex |-> key[2], ratio |-> q[i].ratio] \in W

\* With the bar of a day an answer has the actions of that date.
ExchangeBatch(b, W, t) ==
    /\ b.at \in Nat /\ b.at <= t
    /\ b.actions \subseteq W
    /\ \A d \in DOMAIN b.bars :
          /\ b.bars[d] # {} /\ b.bars[d] \subseteq Fraction
          /\ \A a \in W : a.ex = d => a \in b.actions

ExchangeJob(l, W, t) ==
    l.source = "nse_bhavcopy" /\ l.pc \in {"fetched", "store"} => ExchangeBatch(l.batch, W, t)

ExchangeTables(rows, acts, W, t) ==
    /\ \A d \in Days : RowVersions(rows[d], t)
    /\ \A key \in ActionKeys : ActionRows(key, acts[key], W, t)
    /\ \A d \in Days : rows[d] # <<>> =>
          \A a \in W : a.ex = d => acts[<<a.kind, a.ex>>] # <<>>

\* A stored bar has the actions of its date beside it, and they are the world's.
ExchangeInv ==
    /\ world \in Worlds /\ clock \in Nat
    /\ DOMAIN feed = Sources /\ feed["nse_bhavcopy"] \in [Days -> Int]
    /\ ExchangeTables(prices["nse_bhavcopy"], actions["nse_bhavcopy"], world.actions, clock)
    /\ \A j \in Jobs : ExchangeJob(jobs[j], world.actions, clock)

LEMMA InitExchange == Init => ExchangeInv
<1> SUFFICES ASSUME Init PROVE ExchangeInv
  OBVIOUS
<1>1. /\ world \in Worlds /\ clock = 3 /\ feed = [s \in Sources |-> world.closes]
      /\ prices = [s \in Sources |-> [d \in Days |-> <<>>]]
      /\ actions = [s \in Sources |-> [key \in ActionKeys |-> <<>>]]
      /\ \A j \in Jobs : jobs[j] = Idle
  BY DEF Init
<1>2. "nse_bhavcopy" \in Sources
  BY DEF Sources
<1>3. world.closes \in [Days -> Nat]
  BY <1>1, WorldsAssumption
<1>4. DOMAIN feed = Sources /\ feed["nse_bhavcopy"] \in [Days -> Int]
  BY <1>1, <1>2, <1>3
<1>5. /\ \A d \in Days : prices["nse_bhavcopy"][d] = <<>>
      /\ \A key \in ActionKeys : actions["nse_bhavcopy"][key] = <<>>
  BY <1>1, <1>2
<1>6. \A i \in 1 .. Len(<<>>) : FALSE
  OBVIOUS
<1>7. ExchangeTables(prices["nse_bhavcopy"], actions["nse_bhavcopy"], world.actions, clock)
  BY <1>5, <1>6 DEF ExchangeTables, RowVersions, ActionRows
<1>8. \A j \in Jobs : ExchangeJob(jobs[j], world.actions, clock)
  BY <1>1 DEF ExchangeJob, Idle
<1> QED
  BY <1>1, <1>4, <1>7, <1>8 DEF ExchangeInv

\* Time passes.
LEMMA LaterTables ==
    ASSUME NEW t \in Nat, NEW u \in Nat, t <= u, NEW W, NEW rows, NEW acts
    PROVE  /\ ExchangeTables(rows, acts, W, t) => ExchangeTables(rows, acts, W, u)
           /\ \A l : ExchangeJob(l, W, t) => ExchangeJob(l, W, u)
<1>1. \A x \in Nat : x <= t => x <= u
  OBVIOUS
<1>2. \A q : RowVersions(q, t) => RowVersions(q, u)
  BY <1>1 DEF RowVersions
<1>3. \A key, q : ActionRows(key, q, W, t) => ActionRows(key, q, W, u)
  BY <1>1 DEF ActionRows
<1>4. \A b : ExchangeBatch(b, W, t) => ExchangeBatch(b, W, u)
  BY <1>1 DEF ExchangeBatch
<1> QED
  BY <1>2, <1>3, <1>4 DEF ExchangeTables, ExchangeJob

LEMMA OutsideExchange ==
    ASSUME ExchangeInv, UNCHANGED <<world, prices, actions, jobs>>,
           clock' \in {clock, clock + 1},
           DOMAIN feed' = Sources, feed'["nse_bhavcopy"] \in [Days -> Int]
    PROVE  ExchangeInv'
<1>1. clock \in Nat /\ clock' \in Nat /\ clock <= clock'
  BY DEF ExchangeInv
<1>2. ExchangeTables(prices["nse_bhavcopy"], actions["nse_bhavcopy"], world.actions, clock')
  BY <1>1, LaterTables DEF ExchangeInv
<1>3. \A j \in Jobs : ExchangeJob(jobs[j], world.actions, clock')
  BY <1>1, LaterTables DEF ExchangeInv
<1> QED
  BY <1>1, <1>2, <1>3 DEF ExchangeInv

LEMMA JobExchange ==
    ASSUME ExchangeInv, MarketInv, NEW j \in Jobs, NEW x, jobs' = [jobs EXCEPT ![j] = x],
           UNCHANGED <<clock, world, feed, prices, actions>>, ExchangeJob(x, world.actions, clock)
    PROVE  ExchangeInv'
<1>1. \A i \in Jobs : jobs'[i] = IF i = j THEN x ELSE jobs[i]
  BY DEF MarketInv
<1>2. \A i \in Jobs : ExchangeJob(jobs'[i], world.actions, clock)
  BY <1>1 DEF ExchangeInv
<1> QED
  BY <1>2 DEF ExchangeInv

LEMMA ReviseExchange == ASSUME ExchangeInv, Revise PROVE ExchangeInv'
<1>1. PICK s \in Sources, r \in Restatements : feed' = [feed EXCEPT ![s][r[1]] = r[2]]
  BY DEF Revise
<1>2. r[1] \in Days /\ r[2] \in Int
  BY RestatementsAssumption
<1>3. /\ DOMAIN feed = Sources /\ feed["nse_bhavcopy"] \in [Days -> Int]
      /\ "nse_bhavcopy" \in Sources
  BY DEF ExchangeInv, Sources
<1>4. DOMAIN feed' = Sources /\ feed'["nse_bhavcopy"] \in [Days -> Int]
  <2>1. DOMAIN feed' = Sources
    BY <1>1, <1>3
  <2>2. CASE s = "nse_bhavcopy"
    <3>1. feed'["nse_bhavcopy"] = [feed["nse_bhavcopy"] EXCEPT ![r[1]] = r[2]]
      BY <1>1, <1>3, <2>2
    <3> QED
      BY <1>2, <1>3, <2>1, <3>1
  <2>3. CASE s # "nse_bhavcopy"
    BY <1>1, <1>3, <2>1, <2>3
  <2> QED
    BY <2>2, <2>3
<1>5. UNCHANGED <<clock, world, prices, actions, jobs>>
  BY DEF Revise, stored
<1> QED
  BY <1>4, <1>5, OutsideExchange

\* An answer of the exchange has a bar for every session that is over, and every action
\* in the range of its bars.
LEMMA ExchangeAnswers ==
    ASSUME ExchangeInv, NEW from, NEW t \in Nat, t <= clock, NEW flaw
    PROVE  ExchangeBatch(Response("nse_bhavcopy", from, t, flaw), world.actions, clock)
<1> DEFINE s == "nse_bhavcopy"
           r == Response(s, from, t, flaw)
           W == world.actions
<1>1. W \subseteq ActionType /\ feed[s] \in [Days -> Int]
  BY WorldsAssumption DEF ExchangeInv
<1>2. /\ r.at = t
      /\ DOMAIN r.bars \subseteq Shown(s, from, t)
      /\ \A d \in DOMAIN r.bars : r.bars[d] = Reported(s, d, t, flaw)
      /\ r.actions = ActionsShown(s, from, t)
  BY DEF Response
<1>3. r.actions = {a \in W : from <= a.ex /\ a.ex <= DateOf(t)}
  BY <1>2 DEF ActionsShown
<1> HIDE DEF r
<1>4. ASSUME NEW d \in DOMAIN r.bars
      PROVE  /\ r.bars[d] # {} /\ r.bars[d] \subseteq Fraction
             /\ \A a \in W : a.ex = d => a \in r.actions
  <2>1. d \in Shown(s, from, t)
    BY <1>2
  <2>2. d \in Sessions /\ AvailableAt(d) <= t /\ from <= d
    BY <2>1 DEF Shown
  <2>3. d \in Days /\ d \in Int
    BY <2>2, SessionNumbers DEF Days
  <2>4. d <= DateOf(t)
    BY <2>2, <2>3, RulesAssumption DEF AvailableAt, CloseOf, DateOf
  <2>5. QuoteOf(s, d, t) \in Fraction
    BY <1>1, <2>3 DEF QuoteOf, Fraction
  <2>6. <<0, 1>> \in Fraction /\ <<2, 1>> \in Fraction
    BY DEF Fraction
  <2>7. Over(QuoteOf(s, d, t), <<2, 1>>) \in Fraction
    BY <2>5, <2>6, FractionFacts
  <2>8. r.bars[d] # {} /\ r.bars[d] \subseteq Fraction
    BY <1>2, <2>5, <2>6, <2>7 DEF Reported
  <2> QED
    BY <1>3, <2>2, <2>4, <2>8
<1>5. r.at \in Nat /\ r.at <= clock /\ r.actions \subseteq W
  BY <1>2, <1>3
<1> QED
  BY <1>4, <1>5 DEF ExchangeBatch, r

LEMMA FromSourceExchange ==
    ASSUME ExchangeInv, MarketInv, NEW j \in Jobs, FromSource(j) PROVE ExchangeInv'
<1> DEFINE l == jobs[j]
           t == IF l.source = "yahoo" THEN clock ELSE l.now
<1>1. PICK flaw \in {Flawless} \cup Flaws :
         jobs' = Receive(j, [Response(l.source, l.from, t, flaw) EXCEPT !.to = l.to])
  BY DEF FromSource
<1> DEFINE r == [Response(l.source, l.from, t, flaw) EXCEPT !.to = l.to]
           x == [l EXCEPT !.pc = "fetched", !.batch = Parsed(l, r)]
<1>2. jobs' = [jobs EXCEPT ![j] = x]
  BY <1>1 DEF Receive, MarketInv
<1>3. UNCHANGED <<clock, world, feed, prices, actions>>
  BY DEF FromSource, stored
<1>4. DOMAIN l = Fields /\ l.now \in Nat /\ l.now <= clock
  BY DEF MarketInv, Job
<1>5. x.source = l.source /\ x.batch = Parsed(l, r)
  BY <1>4 DEF Fields
<1>6. ASSUME l.source = "nse_bhavcopy" PROVE ExchangeBatch(x.batch, world.actions, clock)
  <2> DEFINE b == Response("nse_bhavcopy", l.from, l.now, flaw)
  <2>1. ExchangeBatch(b, world.actions, clock)
    BY <1>4, ExchangeAnswers
  <2>2. DOMAIN b = {"from", "to", "at", "bars", "actions"}
    BY DEF Response
  <2>3. r = [b EXCEPT !.to = l.to] /\ Parsed(l, r) = r
    BY <1>6 DEF Parsed
  <2> HIDE DEF b, r, x
  <2>4. r.at = b.at /\ r.bars = b.bars /\ r.actions = b.actions
    BY <2>2, <2>3
  <2> QED
    BY <1>5, <2>1, <2>3, <2>4 DEF ExchangeBatch
<1> HIDE DEF x, r, t
<1>7. ExchangeJob(x, world.actions, clock)
  BY <1>5, <1>6 DEF ExchangeJob
<1> QED
  BY <1>2, <1>3, <1>7, JobExchange

LEMMA FromCacheExchange ==
    ASSUME ExchangeInv, MarketInv, NEW j \in Jobs, FromCache(j) PROVE ExchangeInv'
<1> DEFINE l == jobs[j]
           x == [l EXCEPT !.pc = "fetched", !.batch = Parsed(l, cache)]
<1>1. l.source = "yahoo" /\ jobs' = [jobs EXCEPT ![j] = x]
  BY DEF FromCache, Receive, MarketInv
<1>2. UNCHANGED <<clock, world, feed, prices, actions>>
  BY DEF FromCache, stored
<1>3. x.source = l.source
  BY DEF MarketInv, Job, Fields
<1> HIDE DEF x
<1>4. ExchangeJob(x, world.actions, clock)
  BY <1>1, <1>3 DEF ExchangeJob
<1> QED
  BY <1>1, <1>2, <1>4, JobExchange

LEMMA StartExchange ==
    ASSUME ExchangeInv, MarketInv, NEW j \in Jobs, Start(j) PROVE ExchangeInv'
<1>1. PICK s \in Sources, from \in {1, Max({1, LatestSession - Overlap})} :
         jobs' = [jobs EXCEPT ![j] = [Idle EXCEPT !.pc = "fetch", !.source = s, !.now = clock,
                                                  !.from = from, !.to = DateOf(clock)]]
  BY DEF Start
<1> DEFINE x == [Idle EXCEPT !.pc = "fetch", !.source = s, !.now = clock,
                             !.from = from, !.to = DateOf(clock)]
<1>2. x.pc = "fetch" /\ jobs' = [jobs EXCEPT ![j] = x]
  BY <1>1 DEF Idle
<1>3. UNCHANGED <<clock, world, feed, prices, actions>>
  BY DEF Start, stored
<1> HIDE DEF x
<1>4. ExchangeJob(x, world.actions, clock)
  BY <1>2 DEF ExchangeJob
<1> QED
  BY <1>2, <1>3, <1>4, JobExchange

LEMMA IdleExchange ==
    ASSUME ExchangeInv, MarketInv, NEW j \in Jobs, Fail(j) \/ Die(j) PROVE ExchangeInv'
<1> DEFINE x == Idle
<1>1. /\ jobs' = [jobs EXCEPT ![j] = x] /\ x.pc = "idle"
      /\ UNCHANGED <<clock, world, feed, prices, actions>>
  BY DEF Fail, Die, Idle, stored
<1> HIDE DEF x
<1>2. ExchangeJob(x, world.actions, clock)
  BY <1>1 DEF ExchangeJob
<1> QED
  BY <1>1, <1>2, JobExchange

LEMMA LockExchange ==
    ASSUME ExchangeInv, MarketInv, NEW j \in Jobs, Lock(j) PROVE ExchangeInv'
<1> DEFINE l == jobs[j]
           x == [l EXCEPT !.pc = "store", !.seen = prices[l.source]]
<1>1. /\ l.pc = "fetched" /\ jobs' = [jobs EXCEPT ![j] = x]
      /\ UNCHANGED <<clock, world, feed, prices, actions>>
  BY DEF Lock, stored, MarketInv
<1>2. x.source = l.source /\ x.batch = l.batch
  BY DEF MarketInv, Job, Fields
<1>3. ExchangeJob(l, world.actions, clock)
  BY DEF ExchangeInv
<1> HIDE DEF x
<1>4. ExchangeJob(x, world.actions, clock)
  BY <1>1, <1>2, <1>3 DEF ExchangeJob
<1> QED
  BY <1>1, <1>4, JobExchange

LEMMA AppendKeeps ==
    ASSUME NEW q, \E S : q \in Seq(S), NEW row
    PROVE  LET p == Append(q, row) IN
           /\ p # <<>>
           /\ \A i \in 1 .. Len(p) : p[i] = row \/ (i \in 1 .. Len(q) /\ p[i] = q[i])
<1>1. PICK S : q \in Seq(S)
  OBVIOUS
<1> DEFINE T == S \cup {row}
           p == Append(q, row)
<1>2. q \in Seq(T) /\ row \in T
  BY <1>1, SeqMonotonic
<1> HIDE DEF T
<1>3. /\ p \in Seq(T) /\ Len(p) = Len(q) + 1 /\ Len(q) \in Nat
      /\ \A i \in 1 .. Len(q) : p[i] = q[i]
      /\ p[Len(q) + 1] = row
  BY <1>2, AppendProperties, LenProperties
<1> HIDE DEF p
<1>4. p # <<>>
  BY <1>3
<1>5. ASSUME NEW i \in 1 .. Len(p) PROVE p[i] = row \/ (i \in 1 .. Len(q) /\ p[i] = q[i])
  <2>1. CASE i \in 1 .. Len(q)
    <3>1. p[i] = q[i]
      BY <1>3, <2>1
    <3> QED
      BY <2>1, <3>1
  <2>2. CASE i \notin 1 .. Len(q)
    <3>1. i = Len(q) + 1
      BY <1>3, <2>2
    <3>2. p[i] = row
      BY <1>3, <3>1, Zenon
    <3> QED
      BY <3>2
  <2> QED
    BY <2>1, <2>2
<1> QED
  BY <1>4, <1>5 DEF p

\* The bars a job stores are of its answer.
LEMMA StoredBars ==
    ASSUME NEW l
    PROVE  \A d \in Stored(l) : ~Clash(l) /\ d \in DOMAIN l.batch.bars
<1>1. \A d \in Accepted(l.batch.bars, l.now) : d \in DOMAIN l.batch.bars
  BY DEF Accepted
<1>2. Report(l).accepted = {} \/ Report(l).accepted = Accepted(l.batch.bars, l.now)
  BY DEF Report, Validated
<1> QED
  BY <1>1, <1>2 DEF Stored, Changed

\* The versions of an action after the answer that has it.
LEMMA StoredAction ==
    ASSUME NEW l, NEW key \in ActionKeys, NEW W \in SUBSET ActionType, NEW t \in Nat,
           l.batch.actions \subseteq W, IsFiniteSet(l.batch.actions),
           l.batch.at \in Nat, l.batch.at <= t,
           \E S : actions[l.source][key] \in Seq(S),
           ActionRows(key, actions[l.source][key], W, t)
    PROVE  /\ ActionRows(key, ActionVersions(l, key), W, t)
           /\ actions[l.source][key] # <<>> => ActionVersions(l, key) # <<>>
           /\ ActionAt(l, key) # {} => ActionVersions(l, key) # <<>>
<1> DEFINE old == actions[l.source][key]
           new == ActionVersions(l, key)
<1>1. /\ Grown(old, new, l.batch.at)
      /\ \A i \in Len(old) + 1 .. Len(new) : \E a \in ActionAt(l, key) : new[i].ratio = a.ratio
      /\ old # <<>> \/ ActionAt(l, key) # {} => new # <<>>
  BY ActionsGrow
<1>2. ASSUME NEW a \in ActionAt(l, key)
      PROVE  [kind |-> key[1], ex |-> key[2], ratio |-> a.ratio] \in W
  <2>1. a \in W /\ a.kind = key[1] /\ a.ex = key[2] /\ a \in ActionType
    BY DEF ActionAt, ActionKeys
  <2>2. a = [kind |-> key[1], ex |-> key[2], ratio |-> a.ratio]
    BY <2>1 DEF ActionType
  <2> QED
    BY <2>1, <2>2
<1>3. Len(old) \in Nat /\ Len(new) \in Nat
  BY <1>1, LenProperties DEF Grown
<1> HIDE DEF old, new
<1>4. ASSUME NEW i \in 1 .. Len(new)
      PROVE  /\ new[i].at \in Nat /\ new[i].at <= t
             /\ [kind |-> key[1], ex |-> key[2], ratio |-> new[i].ratio] \in W
  <2>1. CASE i \in 1 .. Len(old)
    <3>1. new[i] = old[i]
      BY <1>1, <2>1 DEF Grown
    <3> QED
      BY <2>1, <3>1 DEF ActionRows, old
  <2>2. CASE i \notin 1 .. Len(old)
    <3>1. i \in Len(old) + 1 .. Len(new)
      BY <1>3, <2>2
    <3>2. new[i].at = l.batch.at
      BY <1>1, <3>1 DEF Grown
    <3>3. PICK a \in ActionAt(l, key) : new[i].ratio = a.ratio
      BY <1>1, <3>1
    <3> QED
      BY <1>2, <3>2, <3>3
  <2> QED
    BY <2>1, <2>2
<1>5. ActionRows(key, new, W, t)
  BY <1>4 DEF ActionRows
<1> QED
  BY <1>1, <1>5 DEF old, new

LEMMA StoreExchange ==
    ASSUME ExchangeInv, MarketInv, Sequenced, NEW j \in Jobs, Store(j) PROVE ExchangeInv'
<1> DEFINE l == jobs[j]
           s == "nse_bhavcopy"
           W == world.actions
<1>1. l.source \in Sources /\ l.pc = "store" /\ s \in Sources
  BY DEF Store, MarketInv, Job, Sources
<1>2. /\ prices' = [prices EXCEPT ![l.source] =
            [d \in Days |-> IF d \in Stored(l) THEN Append(@[d], RowOf(l, d)) ELSE @[d]]]
      /\ actions' = IF Clash(l) THEN actions
            ELSE [actions EXCEPT ![l.source] = [key \in ActionKeys |-> ActionVersions(l, key)]]
      /\ jobs' = [jobs EXCEPT ![j] = Idle]
      /\ UNCHANGED <<clock, world, feed>>
  BY DEF Store
<1>3. clock \in Nat /\ W \in SUBSET ActionType
  BY WorldsAssumption DEF ExchangeInv
<1>4. ASSUME NEW i \in Jobs PROVE ExchangeJob(jobs'[i], W, clock)
  <2>1. jobs'[i] = IF i = j THEN Idle ELSE jobs[i]
    BY <1>2 DEF MarketInv
  <2>2. Idle.pc = "idle"
    BY DEF Idle
  <2> QED
    BY <2>1, <2>2 DEF ExchangeJob, ExchangeInv
<1>5. ExchangeTables(prices[s], actions[s], W, clock)
  BY DEF ExchangeInv
<1>6. CASE l.source # s
  <2>1. prices'[s] = prices[s] /\ actions'[s] = actions[s]
    BY <1>1, <1>2, <1>6 DEF Sequenced
  <2> QED
    BY <1>2, <1>4, <1>5, <2>1 DEF ExchangeInv
<1>7. CASE l.source = s
  <2>1. ExchangeBatch(l.batch, W, clock)
    BY <1>1, <1>7 DEF ExchangeInv, ExchangeJob
  <2>2. \A d \in Days : prices'[s][d] = IF d \in Stored(l) THEN Append(prices[s][d], RowOf(l, d))
                                       ELSE prices[s][d]
    BY <1>1, <1>2, <1>7 DEF Sequenced
  <2>3. \A key \in ActionKeys :
           actions'[s][key] = IF Clash(l) THEN actions[s][key] ELSE ActionVersions(l, key)
    BY <1>1, <1>2, <1>7 DEF Sequenced
  <2>4. ASSUME NEW d \in Days PROVE RowVersions(prices'[s][d], clock)
    <3>1. CASE d \notin Stored(l)
      BY <1>5, <2>2, <3>1 DEF ExchangeTables
    <3>2. CASE d \in Stored(l)
      <4> DEFINE q == prices[s][d]
                 row == RowOf(l, d)
                 p == Append(q, row)
      <4>1. d \in DOMAIN l.batch.bars
        BY <3>2, StoredBars
      <4>2. row.value \in Fraction
        <5>1. row.value = CHOOSE v \in l.batch.bars[d] : TRUE
          BY DEF RowOf, TheValue
        <5>2. l.batch.bars[d] # {} /\ l.batch.bars[d] \subseteq Fraction
          BY <2>1, <4>1 DEF ExchangeBatch
        <5> QED
          BY <5>1, <5>2
      <4>3. row.at \in Nat /\ row.at <= clock
        BY <2>1 DEF RowOf, ExchangeBatch
      <4>4. RowVersions(q, clock) /\ \E S : q \in Seq(S)
        BY <1>1, <1>5 DEF ExchangeTables, Sequenced
      <4> HIDE DEF q, row
      <4>5. \A i \in 1 .. Len(p) : p[i] = row \/ (i \in 1 .. Len(q) /\ p[i] = q[i])
        BY <4>4, AppendKeeps
      <4> HIDE DEF p
      <4>6. RowVersions(p, clock)
        BY <4>2, <4>3, <4>4, <4>5 DEF RowVersions
      <4> QED
        BY <2>2, <3>2, <4>6 DEF p, q, row
    <3> QED
      BY <3>1, <3>2
  <2>5. ASSUME NEW key \in ActionKeys
        PROVE  /\ ActionRows(key, ActionVersions(l, key), W, clock)
               /\ actions[s][key] # <<>> => ActionVersions(l, key) # <<>>
               /\ ActionAt(l, key) # {} => ActionVersions(l, key) # <<>>
               /\ ActionRows(key, actions[s][key], W, clock)
    <3>1. /\ l.batch.actions \subseteq W /\ l.batch.at \in Nat /\ l.batch.at <= clock
          /\ IsFiniteSet(l.batch.actions)
          /\ \E S : actions[l.source][key] \in Seq(S)
          /\ ActionRows(key, actions[l.source][key], W, clock)
      BY <1>1, <1>5, <1>7, <2>1 DEF ExchangeBatch, ExchangeTables, Sequenced, MarketInv, Job, Answer
    <3> HIDE DEF W, l
    <3> QED
      BY <1>3, <1>7, <3>1, StoredAction
  <2>6. ASSUME NEW d \in Days, prices'[s][d] # <<>>, NEW a \in W, a.ex = d
        PROVE  actions'[s][<<a.kind, a.ex>>] # <<>>
    <3> DEFINE key == <<a.kind, a.ex>>
    <3>1. key \in ActionKeys
      BY <1>3, <2>6 DEF ActionType, ActionKeys
    <3>2. CASE d \in Stored(l)
      <4>1. ~Clash(l) /\ d \in DOMAIN l.batch.bars
        BY <3>2, StoredBars
      <4>2. a \in ActionAt(l, key)
        BY <2>1, <2>6, <4>1 DEF ExchangeBatch, ActionAt
      <4> HIDE DEF key
      <4> QED
        BY <2>3, <2>5, <3>1, <4>1, <4>2 DEF key
    <3>3. CASE d \notin Stored(l)
      <4>1. actions[s][key] # <<>>
        BY <1>5, <2>2, <2>6, <3>3 DEF ExchangeTables
      <4> HIDE DEF key
      <4> QED
        BY <2>3, <2>5, <3>1, <4>1 DEF key
    <3> QED
      BY <3>2, <3>3
  <2>7. \A key \in ActionKeys : ActionRows(key, actions'[s][key], W, clock)
    BY <2>3, <2>5
  <2>8. ExchangeTables(prices'[s], actions'[s], W, clock)
    <3> HIDE DEF W
    <3> QED
      BY <2>4, <2>6, <2>7 DEF ExchangeTables
  <2> QED
    BY <1>2, <1>4, <2>8 DEF ExchangeInv
<1> QED
  BY <1>6, <1>7

LEMMA StepExchange == MarketInv /\ Sequenced /\ ExchangeInv /\ [Next]_vars => ExchangeInv'
<1> SUFFICES ASSUME MarketInv, Sequenced, ExchangeInv, [Next]_vars PROVE ExchangeInv'
  OBVIOUS
<1>1. CASE Tick \/ Analyse \/ UNCHANGED vars
  <2>1. /\ UNCHANGED <<world, prices, actions, jobs, feed>>
        /\ clock' \in {clock, clock + 1}
    BY <1>1 DEF Tick, Analyse, vars, stored
  <2> QED
    BY <2>1, OutsideExchange DEF ExchangeInv
<1>2. CASE Revise
  BY <1>2, ReviseExchange
<1>3. ASSUME NEW j \in Jobs,
             \/ Start(j) \/ FromCache(j) \/ FromSource(j) \/ Fail(j)
             \/ Lock(j) \/ Store(j) \/ Die(j)
      PROVE  ExchangeInv'
  BY <1>3, StartExchange, FromCacheExchange, FromSourceExchange, IdleExchange, LockExchange,
     StoreExchange
<1> QED
  BY <1>1, <1>2, <1>3 DEF Next

\* What a read finds.
LEMMA StockIsKnown ==
    ASSUME ExchangeInv, MarketInv, Sequenced, OneOfAKind(world.actions)
    PROVE  StockFacts(Rows("nse_bhavcopy", clock, clock),
                      ActionsAsOf("nse_bhavcopy", clock, clock), world.actions)
<1> DEFINE s == "nse_bhavcopy"
           W == world.actions
           raw == Rows(s, clock, clock)
           known == ActionsAsOf(s, clock, clock)
           last(q) == q[Max(Known(q, clock))]
           act(key) == [kind |-> key[1], ex |-> key[2], ratio |-> last(actions[s][key]).ratio]
           D == {e \in Days : AvailableAt(e) <= clock /\ Known(prices[s][e], clock) # {}}
           K == {k \in ActionKeys : k[2] <= DateOf(clock) /\ Known(actions[s][k], clock) # {}}
<1>1. /\ IsFiniteSet(W) /\ W \subseteq ActionType
      /\ \A a, b \in W : a.kind = b.kind /\ a.ex = b.ex => a = b
  BY WorldsAssumption DEF ExchangeInv, OneOfAKind
<1>2. ExchangeTables(prices[s], actions[s], W, clock) /\ clock \in Nat /\ s \in Sources
  BY DEF ExchangeInv, Sources
<1>3. ASSUME NEW q, \E S : q \in Seq(S), Known(q, clock) # {}
      PROVE  Max(Known(q, clock)) \in 1 .. Len(q)
  <2>1. Len(q) \in Nat /\ Known(q, clock) \in SUBSET (1 .. Len(q))
    BY <1>3, LenProperties DEF Known
  <2> QED
    BY <1>3, <2>1, LastKnown
<1>4. DOMAIN raw = D /\ \A d \in D : raw[d] = last(prices[s][d]).value
  BY DEF Rows
<1>5. known = {act(key) : key \in K}
  BY DEF ActionsAsOf
<1> HIDE DEF raw, known, last
<1>6. ASSUME NEW key \in K PROVE act(key) \in W
  <2>1. /\ ActionRows(key, actions[s][key], W, clock)
        /\ \E S : actions[s][key] \in Seq(S) /\ Known(actions[s][key], clock) # {}
    BY <1>2 DEF ExchangeTables, Sequenced
  <2>2. Max(Known(actions[s][key], clock)) \in 1 .. Len(actions[s][key])
    BY <1>3, <2>1
  <2> QED
    BY <2>1, <2>2 DEF ActionRows, last
<1>7. known \subseteq W
  <2> HIDE DEF act, K
  <2> QED
    BY <1>5, <1>6
<1>8. ASSUME NEW d \in D PROVE d \in Sessions /\ raw[d] \in Fraction /\ prices[s][d] # <<>>
  <2>1. /\ RowVersions(prices[s][d], clock) /\ Bar(s, d, prices[s][d])
        /\ (\E S : prices[s][d] \in Seq(S)) /\ Known(prices[s][d], clock) # {}
    BY <1>2 DEF ExchangeTables, Sequenced, MarketInv, TablesInv
  <2>2. Max(Known(prices[s][d], clock)) \in 1 .. Len(prices[s][d])
    BY <1>3, <2>1
  <2>3. prices[s][d] # <<>>
    BY <2>2
  <2> QED
    BY <1>4, <2>1, <2>2, <2>3 DEF Bar, RowVersions, last
<1>9. ASSUME NEW d \in D, NEW a \in W, a.ex = d PROVE a \in known
  <2> DEFINE key == <<a.kind, a.ex>>
             q == actions[s][key]
  <2>1. key \in ActionKeys /\ key[1] = a.kind /\ key[2] = a.ex
    BY <1>1, <1>9 DEF ActionType, ActionKeys
  <2>2. q # <<>> /\ ActionRows(key, q, W, clock) /\ \E S : q \in Seq(S)
    BY <1>2, <1>8, <1>9, <2>1 DEF ExchangeTables, Sequenced
  <2>3. 1 \in Known(q, clock)
    <3> HIDE DEF q
    <3>1. Len(q) \in Nat /\ Len(q) # 0
      BY <2>2, EmptySeq, LenProperties
    <3>2. 1 \in 1 .. Len(q)
      BY <3>1
    <3> QED
      BY <2>2, <3>2 DEF Known, ActionRows
  <2>4. key[2] <= DateOf(clock)
    <3>1. d \in Int /\ AvailableAt(d) <= clock
      BY DEF Days
    <3>2. d <= DateOf(clock)
      BY <1>2, <3>1, RulesAssumption DEF AvailableAt, CloseOf, DateOf
    <3> QED
      BY <1>9, <2>1, <3>2
  <2>5. key \in K
    BY <2>1, <2>3, <2>4
  <2>6. act(key) \in W /\ act(key).kind = a.kind /\ act(key).ex = a.ex
    BY <1>6, <2>1, <2>5
  <2>7. act(key) = a
    <3> HIDE DEF act, key
    <3> QED
      BY <1>1, <2>6
  <2> HIDE DEF act, key, K
  <2> QED
    BY <1>5, <2>5, <2>7
<1> HIDE DEF D, K, act
<1>10. /\ DOMAIN raw \subseteq Sessions
       /\ \A d \in DOMAIN raw : raw[d] \in Fraction /\ \A a \in W : a.ex = d => a \in known
  BY <1>4, <1>8, <1>9
<1> QED
  BY <1>1, <1>7, <1>10 DEF StockFacts, raw, known

LEMMA ExchangeReturns ==
    ASSUME ExchangeInv, MarketInv, Sequenced, OneOfAKind(world.actions)
    PROVE  RawReturnsAreAHolders /\ TotalReturnsAreAHolders
<1> DEFINE s == "nse_bhavcopy"
           W == world.actions
           raw == Rows(s, clock, clock)
           known == ActionsAsOf(s, clock, clock)
<1>1. StockFacts(raw, known, W)
  BY StockIsKnown
<1>2. /\ Series(s, "split_adjusted", clock, clock) = SplitAdjusted(raw, known)
      /\ Series(s, "total_return", clock, clock)
         = TotalReturn(SplitAdjusted(raw, known), RestatedDividends(known))
  BY DEF Series, Converted, Basis
<1>3. \A a, b : HoldersReturn(raw, a, b)
                = Over(Times(raw[b], RatioProduct(SplitsIn(W, a, b))), raw[a])
  BY DEF HoldersReturn, RatioProduct, SplitsIn
<1>4. \A b : /\ Product({x \in Splits(W) : x.ex = b}, LAMBDA x : x.ratio)
                = RatioProduct(SplitsOn(W, b))
             /\ MapThenFoldSet(LAMBDA x, y : <<x[1] * y[2] + y[1] * x[2], x[2] * y[2]>>, <<0, 1>>,
                       LAMBDA v : v.ratio, LAMBDA T : CHOOSE v \in T : TRUE,
                       {v \in Dividends(W) : v.ex = b})
                = CashOf(DividendsOn(W, b))
  BY DEF RatioProduct, SplitsOn, CashOf, DividendsOn
<1> HIDE DEF W, raw, known
<1>5. RawReturnsAreAHolders
  <2>1. ASSUME NEW p \in Adjacent(raw)
        PROVE  Same(Over(SplitAdjusted(raw, known)[p[2]], SplitAdjusted(raw, known)[p[1]]),
                    HoldersReturn(raw, p[1], p[2]))
    BY <1>1, <1>3, AdjustedGains
  <2> QED
    BY <1>2, <2>1 DEF RawReturnsAreAHolders, raw
<1>6. TotalReturnsAreAHolders
  <2> DEFINE total == TotalReturn(SplitAdjusted(raw, known), RestatedDividends(known))
  <2>1. ASSUME NEW p \in Adjacent(raw)
        PROVE  Same(Over(total[p[2]], total[p[1]]),
                    Over(raw[p[2]], Minus(Over(raw[p[1]], RatioProduct(SplitsOn(W, p[2]))),
                                          CashOf(DividendsOn(W, p[2])))))
    BY <1>1, TotalGains
  <2> QED
    BY <1>2, <1>4, <2>1 DEF TotalReturnsAreAHolders, raw, W
<1> QED
  BY <1>5, <1>6

-----------------------------------------------------------------------------
(* The theorems                                                              *)

\* Types of the market data tables and of the ingestions (market_data/service.py).
THEOREM MarketTypes == Spec => []TypeOK
<1> QED
  BY Invariance, InvImplies, PTL

\* However many ingestions of a stock overlap, fail and die, versions are numbered without
\* a gap, each differs from the last, every revision is on record, and none is lost to the
\* unique constraint (ingest, _store_bars).
THEOREM LinearVersions == Spec => []VersionsAreLinear
<1> QED
  BY Invariance, InvImplies, PTL

\* Whatever the cache hands to later jobs, a stored bar was retrieved after the close of its
\* session, as a cached response expires within the availability lag (parse, _request).
THEOREM RetrievedComplete == Spec => []CompleteWhenRetrieved
<1> QED
  BY Invariance, InvImplies, PTL

\* Whatever is restated, split or refreshed after an analysis, replaying it with its two
\* cut-offs reads what it read, unless another source is chosen now or a row it should have
\* known was stored after it (get_series, _latest_versions, validate_stored).
THEOREM ReplaysAreExact == Spec => []ReplayIsExact
<1>1. ReplayInv => ReplayIsExact
  <2> SUFFICES ASSUME ReplayInv, analysis # None, ~late, Chosen = analysis.reading.source
               PROVE  Reading(Chosen, analysis.asOf, analysis.knowledge) = analysis.reading
    BY DEF ReplayIsExact
  <2> QED
    BY DEF ReplayInv
<1>2. Spec => []ReplayInv
  BY Invariance, InitReplays, StepReplays, PTL DEF Spec
<1> QED
  BY <1>1, <1>2, PTL

\* Of a stock that has no two splits, bonuses or dividends of one date, the split-adjusted
\* series of the exchange's closes gains between adjacent sessions what a holder of the share
\* gained, and the total-return series what a holder gained who bought shares with the
\* dividends, whatever was restated, which parts of the history a refresh asked for and which
\* answers failed, as a bar is never stored without the actions of its date (ingest_batch,
\* raw_to_split_adjusted, split_adjusted_to_total_return).
THEOREM ReturnsOfAHolder == Spec => []ReturnsAreAHolders
<1>1. Spec => []ReplayInv
  BY Invariance, InitReplays, StepReplays, PTL DEF Spec
<1>2. ReplayInv => Sequenced
  BY DEF ReplayInv
<1>3. Spec => []ExchangeInv
  BY <1>1, <1>2, Invariance, InitExchange, StepExchange, PTL DEF Spec
<1>4. ExchangeInv /\ MarketInv /\ Sequenced => ReturnsAreAHolders
  BY ExchangeReturns DEF ReturnsAreAHolders
<1> QED
  BY <1>1, <1>2, <1>3, <1>4, Invariance, PTL
=================================================================================
