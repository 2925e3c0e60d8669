------------------------------ MODULE PriceSeries ------------------------------
(***************************************************************************)
(* The pure part of the market data (backend/app/market_data): the          *)
(* calendar, the validation of daily bars, freshness, and the conversions   *)
(* between raw, split-adjusted and total-return prices.                     *)
(*                                                                         *)
(* A day is a number; the calendar's sessions are some of the days.  Time    *)
(* has three ticks a day.  A bar is its close, a fraction <<n, d>> of a      *)
(* rupee; a close of 0 stands for every bar _row_problem refuses.  A series  *)
(* maps days to closes.  Rounding to 0.0001 is left out.                    *)
(***************************************************************************)
EXTENDS Integers, FiniteSets, FiniteSetsExt

CONSTANTS
    LastDay,          \* the calendar's range is 1 .. LastDay
    Sessions,         \* the days the exchange trades
    Lag,              \* ticks from a session's close until its bar is available
    MaxBehind,        \* sessions a fresh series may be behind
    MissingPct,       \* per cent of the sessions that may be missing
    MovePct,          \* per cent a close may move without an explanation
    StaleRun,         \* equal closes in a row that are reported
    HeadGap           \* sessions that may be absent at the start of a window

ASSUME CalendarAssumption == LastDay \in Nat /\ Sessions \subseteq 1 .. LastDay
ASSUME RulesAssumption ==
    /\ Lag \in Nat /\ MaxBehind \in Nat /\ MissingPct \in Nat /\ MovePct \in Nat
    /\ StaleRun \in Nat /\ HeadGap \in Nat

Days == 1 .. LastDay

\* A day has three ticks: in the session, after its close, in the evening.
Started(d, t) == t >= 3 * d - 2
CloseOf(d) == 3 * d - 1
AvailableAt(d) == CloseOf(d) + Lag

\* The IST date of a moment.
DateOf(t) == (t + 2) \div 3

-----------------------------------------------------------------------------
(* Fractions                                                                *)

Times(a, b) == <<a[1] * b[1], a[2] * b[2]>>
Minus(a, b) == <<a[1] * b[2] - b[1] * a[2], a[2] * b[2]>>
Over(a, b) == <<a[1] * b[2], a[2] * b[1]>>
Same(a, b) == a[1] * b[2] = b[1] * a[2]
AtMost(a, b) == a[1] * b[2] <= b[1] * a[2]

One == <<1, 1>>

\* The product of F(x) over a set.
Product(S, F(_)) == MapThenFoldSet(Times, One, F, LAMBDA T : CHOOSE x \in T : TRUE, S)

-----------------------------------------------------------------------------
(* The calendar                                                             *)

SessionsIn(from, to) == Sessions \cap (from .. to)

\* Sessions whose bars are available.
CompletedBy(t) == {d \in Sessions : AvailableAt(d) <= t}

\* evaluate_daily_freshness: without a completed session nothing is known.
Freshness(latest, t) ==
    LET expected == Max(CompletedBy(t)) IN
    IF CompletedBy(t) = {} \/ DateOf(t) > LastDay THEN "UNKNOWN"
    ELSE IF latest = 0 THEN "FAIL"
    ELSE IF latest >= expected \/ Cardinality(SessionsIn(latest, expected)) - 1 <= MaxBehind
    THEN "PASS" ELSE "FAIL"

-----------------------------------------------------------------------------
(* Validation of bars, a function from days to the set of values reported    *)

\* Neighbouring days of a set.
Neighbours(S) == {p \in S \X S : p[1] < p[2] /\ \A d \in S : ~(p[1] < d /\ d < p[2])}

TheValue(bars, d) == CHOOSE v \in bars[d] : TRUE

\* Identical duplicates have collapsed, differing ones are a conflict.
Conflicting(bars) == {d \in DOMAIN bars : Cardinality(bars[d]) > 1}

IncompleteAt(d, t) == AvailableAt(d) > t

\* Bars on days without a regular session are excluded.
Excluded(bars) ==
    {d \in DOMAIN bars \ Conflicting(bars) : d \in Days \ Sessions /\ TheValue(bars, d)[1] > 0}

Accepted(bars, t) ==
    {d \in DOMAIN bars \ Conflicting(bars) :
        d \in Sessions /\ TheValue(bars, d)[1] > 0 /\ ~IncompleteAt(d, t)}

\* The sessions between the first and the last accepted bar, within the window.
Expected(A, window) ==
    SessionsIn(Max({window[1], Min(A)}), Min({window[2], Max(A)}))

\* The sessions asked for, up to the last accepted bar.
Requested(A, window) ==
    SessionsIn(Max({window[1], 1}), Min({window[2], LastDay, Max(A)}))

\* A move beyond the threshold on a day without a corporate action.
Unexplained(bars, A, exDates) ==
    {p \in Neighbours(A) :
        LET a == TheValue(bars, p[1]) IN
        LET b == TheValue(bars, p[2]) IN
        /\ p[2] \notin exDates
        /\ \/ ~AtMost(Times(<<100, 1>>, b), Times(<<100 + MovePct, 1>>, a))
           \/ ~AtMost(Times(<<100 - MovePct, 1>>, a), Times(<<100, 1>>, b))}

\* The days on which a close has been the same StaleRun times.
Frozen(bars, A) ==
    {d \in A : \E e \in A :
        /\ Cardinality(A \cap (e .. d)) = StaleRun
        /\ \A f \in A \cap (e .. d) : Same(TheValue(bars, f), TheValue(bars, d))
        /\ \A p \in Neighbours(A) :
               p[2] = e => ~Same(TheValue(bars, p[1]), TheValue(bars, e))}

Late(A, window) == Cardinality({d \in Requested(A, window) : d < Min(A)}) > HeadGap

\* validate_bars.  The score is in units of 0.0001.
Validated(bars, t, window, exDates) ==
    LET A == Accepted(bars, t) IN
    IF A = {} THEN [accepted |-> {}, usable |-> FALSE, warnings |-> 0, score |-> 0]
    ELSE
    LET missing == Expected(A, window) \ A IN
    LET asked == Requested(A, window) IN
    LET usable == /\ DOMAIN bars = A \cup Excluded(bars)
                  /\ Cardinality(missing) * 100 <= MissingPct * Cardinality(Expected(A, window)) IN
    LET warnings == Cardinality(Excluded(bars)) + Cardinality(missing)
                    + Cardinality(Unexplained(bars, A, exDates)) + Cardinality(Frozen(bars, A))
                    + (IF Late(A, window) THEN 1 ELSE 0) IN
    LET clean == 10000 - 100 * warnings
                 - (IF missing = {} THEN 0
                    ELSE (50000 * Cardinality(missing)) \div Cardinality(Expected(A, window))) IN
    LET coverage == IF asked = {} THEN 0
                    ELSE (10000 * Cardinality(asked \cap A)) \div Cardinality(asked) IN
    [accepted |-> A, usable |-> usable, warnings |-> warnings,
     score |-> IF usable THEN Min({Max({0, clean}), coverage}) ELSE 0]

-----------------------------------------------------------------------------
(* Corporate actions: [kind, ex, ratio] where the ratio of a split is new     *)
(* shares per old one and that of a dividend the cash per share               *)

Splits(actions) == {a \in actions : a.kind = "split"}
Dividends(actions) == {a \in actions : a.kind = "dividend"}

SplitAdjusted_throughExDate(series, actions) ==
    [d \in DOMAIN series |->
        Over(series[d], Product({s \in Splits(actions) : d <= s.ex}, LAMBDA s : s.ratio))]

\* raw_to_split_adjusted: bars before an ex-date are divided by the ratio.
SplitAdjusted(series, actions) ==
    [d \in DOMAIN series |->
        Over(series[d], Product({s \in Splits(actions) : d < s.ex}, LAMBDA s : s.ratio))]

\* _split_adjust_dividends: cash per share, in today's shares.
RestatedDividends(actions) ==
    {[v EXCEPT !.ratio =
        Over(v.ratio, Product({s \in Splits(actions) : v.ex < s.ex}, LAMBDA s : s.ratio))] :
        v \in Dividends(actions)}

\* Dividends with a bar before and a bar on or after their ex-date.
Inside(series, actions) ==
    {v \in Dividends(actions) :
        (\E d \in DOMAIN series : d < v.ex) /\ \E d \in DOMAIN series : d >= v.ex}

CloseBefore(series, ex) == series[Max({d \in DOMAIN series : d < ex})]

\* AdjustmentError: a dividend is not less than the close before it.
CanReinvest(series, actions) ==
    \A v \in Inside(series, actions) : ~AtMost(CloseBefore(series, v.ex), v.ratio)

\* split_adjusted_to_total_return: bars before an ex-date are scaled by 1 - D / C.
TotalReturn(series, actions) ==
    LET factor(v) == Minus(One, Over(v.ratio, CloseBefore(series, v.ex))) IN
    [d \in DOMAIN series |->
        Times(series[d], Product({v \in Inside(series, actions) : d < v.ex}, factor))]

\* convert, from "raw" or "split_adjusted".
Converted(series, from, to, actions) ==
    IF from = to THEN series
    ELSE IF to = "split_adjusted" THEN SplitAdjusted(series, actions)
    ELSE IF from = "split_adjusted" THEN TotalReturn(series, actions)
    ELSE TotalReturn(SplitAdjusted(series, actions), RestatedDividends(actions))
=============================================================================
