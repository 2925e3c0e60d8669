------------------------------ MODULE AgentScores ------------------------------
(***************************************************************************)
(* What the research agents (app/agents) make of the facts they read: each  *)
(* agent turns facts into directed signals, scores them with one shared    *)
(* formula and returns an output that the contract of agents/base.py       *)
(* accepts, or no score at all.                                             *)
(*                                                                         *)
(* Fractions are in per cent (100 is 1.0), scores in hundredths of a point  *)
(* (5000 is "no tilt"), the technical agent's prices in tenths of a paisa.  *)
(* A signal keeps its name, category, direction and strength.  What a fact  *)
(* is computed from (averages, oscillators, ratios, regressions) is left to *)
(* the facts.                                                               *)
(***************************************************************************)
EXTENDS Absence, Integers, FiniteSets, FiniteSetsExt, SequencesExt

CONSTANT Rules   \* thresholds and weights of aegis.yaml, by section

\* What core/config_file.py demands of each section; weights add up to one.  A threshold
\* that is halved is at least two units, so that half of it is not rounded away.
Positive == Nat \ {0}

Shares(weights) == /\ IsFiniteSet(DOMAIN weights)
                   /\ \A c \in DOMAIN weights : weights[c] \in 0 .. 100
                   /\ SumFunction(weights) = 100

RiskAnalysisRules(r) ==
    /\ r.lowVolatility \in 1 .. 199 /\ r.highVolatility \in r.lowVolatility + 2 .. 299
    /\ r.lowBeta \in 0 .. 499 /\ r.highBeta \in r.lowBeta + 1 .. 499
    /\ r.drawdownWarning \in 2 .. 99 /\ r.minHistory \in Positive
    /\ Shares(r.weights)

TechnicalRules(t) ==
    /\ t.overbought \in 51 .. 99 /\ t.oversold \in 1 .. 49 /\ t.adxTrend \in 1 .. 99
    /\ t.breakoutVolume \in 100 .. 1000 /\ t.atrMultiple \in 1 .. 10 /\ t.minHistory \in Positive
    /\ DOMAIN t.weights \subseteq {"trend", "momentum", "breakout", "volume", "mean_reversion"}
    /\ Shares(t.weights)

FundamentalRules(f) ==
    /\ f.cheapPe \in 1 .. 500 /\ f.expensivePe \in f.cheapPe + 1 .. 500
    /\ f.minPeriods \in 1 .. 20 /\ f.strongGrowth \in Positive /\ f.marginMove \in 1 .. 99
    /\ f.highRoe \in Positive /\ f.highRoce \in Positive
    /\ f.maxDebtToEquity \in Positive /\ f.minInterestCoverage \in Positive
    /\ f.weakCashConversion \in Positive /\ f.minGrowthForPeg \in 1 .. 99
    /\ DOMAIN f.weights \subseteq {"growth", "profitability", "balance_sheet", "cash_quality", "valuation"}
    /\ Shares(f.weights)

ValuationRules(v) ==
    /\ v.riskFree \in 1 .. 299 /\ v.equityPremium \in 1 .. 199 /\ v.years \in 3 .. 15
    /\ v.beta.low \in Positive /\ v.beta.high \in Positive /\ v.beta.low < v.beta.high
    /\ v.terminal.bear \in 0 .. v.terminal.base /\ v.terminal.base \in 0 .. v.terminal.bull
    /\ v.terminal.bull \in 0 .. 149
    /\ v.minGrowth \in -49 .. -1 /\ v.maxGrowth \in 1 .. 99 /\ v.mosScale \in 1 .. 200
    /\ v.growthSpread \in 0 .. 49 /\ v.waccSpread \in 0 .. 99

NewsRules(n) == n.halfLife \in 1 .. 90 /\ n.minItems \in 1 .. 100 /\ n.window \in 1 .. 60

\* Sensitivities name market series, macro indicators or the repo rate only.
MacroRules(m) ==
    \A sector \in DOMAIN m.sensitivities :
       /\ IsFiniteSet(DOMAIN m.sensitivities[sector])
       /\ DOMAIN m.sensitivities[sector] \subseteq m.series \cup m.rates
       /\ \A x \in DOMAIN m.sensitivities[sector] : m.sensitivities[sector][x] \in -100 .. 100

PortfolioRules(p) == p.maxSectorWeight \in 1 .. 99 /\ Shares(p.weights)

RulesHold ==
    /\ RiskAnalysisRules(Rules.risk) /\ PortfolioRules(Rules.portfolio)
    /\ TechnicalRules(Rules.technical) /\ FundamentalRules(Rules.fundamental)
    /\ ValuationRules(Rules.valuation) /\ NewsRules(Rules.news) /\ MacroRules(Rules.macro)

ASSUME RulesAssumption == RulesHold

Size(x) == IF x < 0 THEN -x ELSE x
Least(a, b) == IF a < b THEN a ELSE b
Most(a, b) == IF a > b THEN a ELSE b
Between(x, lo, hi) == Least(Most(x, lo), hi)
Direction(x) == IF x > 0 THEN 1 ELSE IF x < 0 THEN -1 ELSE 0
When(holds, signals) == IF holds THEN signals ELSE {}

-----------------------------------------------------------------------------
(* The shared scoring formula and the output contract.                     *)

Clipped_above(strength) == Most(strength, 0)
Clipped(strength) == Between(strength, 0, 100)

Sig(name, category, value, strength) ==
    [name |-> name, category |-> category, dir |-> Direction(value),
     strength |-> Clipped(strength)]

Net(signals) == SumFunction([s \in signals |-> s.dir * s.strength])
Pull(signals) == SumFunction([s \in signals |-> s.strength])
Directed(signals) == {s \in signals : s.dir # 0}
Of(signals, category) == {s \in signals : s.category = category}

Agreement(signals) ==
    IF Pull(Directed(signals)) = 0 THEN 0
    ELSE (100 * Size(Net(signals))) \div Pull(Directed(signals))

\* A category scores the mean of its signals, a share of 10000 either way.
CategoryNet(signals, c) == (100 * Net(Of(signals, c))) \div Cardinality(Of(signals, c))

Composite(signals, weights) ==
    LET present == {c \in DOMAIN weights : Of(signals, c) # {}}
        covered == {c \in DOMAIN weights : Of(Directed(signals), c) # {}}
        wsum == SumFunctionOnSet(weights, present)
        tilt == SumFunction([c \in present |-> weights[c] * CategoryNet(signals, c)])
    IN [score |-> IF wsum = 0 THEN 5000 ELSE 5000 + tilt \div (2 * wsum),
        tilt |-> tilt,
        agreement |-> Agreement(signals),
        breadth |-> SumFunctionOnSet(weights, covered)]

NotOk(status) == [status |-> status, score |-> None, confidence |-> 0]

\* AgentOutput refuses what it does not accept: the agent then reports a failure.
Contract(out) == IF out.status = "ok" THEN out.score \in 0 .. 10000 /\ out.confidence \in 0 .. 100
                 ELSE out.score = None /\ out.confidence = 0

Ok(score, confidence) ==
    LET out == [status |-> "ok", score |-> score, confidence |-> confidence]
    IN IF Contract(out) THEN out ELSE NotOk("failed")

-----------------------------------------------------------------------------
(* Risk: volatility, drawdown, market sensitivity, return quality and       *)
(* liquidity.  adtv is the logarithm of traded value over the minimum.      *)

VolatilitySignals(m) ==
    LET r == Rules.risk
        mid == (r.lowVolatility + r.highVolatility) \div 2
        half == (r.highVolatility - r.lowVolatility) \div 2
        ratio == (100 * m.recent) \div m.volatility
    IN {Sig("volatility_level", "volatility", mid - m.volatility,
            (100 * Size(m.volatility - mid)) \div half)}
       \cup When(/\ Known(m.recent) /\ m.volatility > 0
                 /\ ratio >= 150 \/ ratio <= 67,
                 {Sig("volatility_shift", "volatility", 100 - ratio, Size(ratio - 100))})

DrawdownSignals_reversed(m) ==
    LET target == Rules.risk.drawdownWarning \div 2
    IN {Sig("max_drawdown", "drawdown", m.drawdown - target,
            (100 * Size(m.drawdown - target)) \div target)}

DrawdownSignals(m) ==
    LET target == Rules.risk.drawdownWarning \div 2
    IN {Sig("max_drawdown", "drawdown", target - m.drawdown,
            (100 * Size(m.drawdown - target)) \div target)}

BetaSignals(m) ==
    LET r == Rules.risk
    IN When(Known(m.beta),
            {IF m.beta > r.highBeta THEN Sig("beta", "market", -1, 40 + m.beta - r.highBeta)
             ELSE IF m.beta < r.lowBeta THEN Sig("beta", "market", 1, 30 + r.lowBeta - m.beta)
             ELSE Sig("beta", "market", 0, 0)})

SharpeSignals(m) ==
    When(Known(m.sharpe), {Sig("sharpe", "return_quality", m.sharpe - 50, Size(m.sharpe - 50))})

LiquiditySignals(m) ==
    When(Known(m.adtv),
         {IF m.adtv < 0 THEN Sig("liquidity", "liquidity", -1, 100)
          ELSE Sig("liquidity", "liquidity", 1, m.adtv)})

RiskSignals(m) == VolatilitySignals(m) \cup DrawdownSignals(m) \cup BetaSignals(m)
                  \cup SharpeSignals(m) \cup LiquiditySignals(m)

Risk(m) ==
    IF m.sessions = 0 THEN NotOk("insufficient_data")
    ELSE IF ~m.usable THEN NotOk("data_unusable")
    ELSE IF m.sessions - 1 < Rules.risk.minHistory THEN NotOk("insufficient_data")
    ELSE LET c == Composite(RiskSignals(m), Rules.risk.weights)
         IN Ok(c.score, (c.agreement * c.breadth * m.quality) \div 10000)

-----------------------------------------------------------------------------
(* Technical: the facts are the last values of the indicators.             *)

TrendSignals(t) ==
    When(Known(t.gap), {Sig("price_vs_sma_long", "trend", t.gap, 10 * Size(t.gap))})
    \cup When(Known(t.gap) /\ Known(t.alignment),
              {IF Known(t.cross) THEN Sig("cross", "trend", t.cross, 80)
               ELSE Sig("sma_alignment", "trend", t.alignment, 50)})
    \cup When(Known(t.adx),
              {IF t.adx >= Rules.technical.adxTrend THEN Sig("strong_trend", "trend", IF t.di > 0 THEN 1 ELSE -1, 2 * t.adx)
               ELSE Sig("weak_trend", "trend", 0, 30)})

MomentumSignals(t) ==
    When(Known(t.macd), {IF Known(t.macdCross) THEN Sig("macd_cross", "momentum", t.macdCross, 70)
                         ELSE Sig("macd_position", "momentum", t.macd, 40)})
    \cup When(Known(t.rsi), {Sig("rsi_level", "momentum", t.rsi - 50, 2 * Size(t.rsi - 50))})
    \cup When(Known(t.roc), {Sig("return", "momentum", t.roc, 5 * Size(t.roc))})
    \cup When(t.highDivergence, {Sig("bearish_divergence", "momentum", -1, 60)})
    \cup When(t.lowDivergence, {Sig("bullish_divergence", "momentum", 1, 60)})

ReversionSignals(t) ==
    LET high == Rules.technical.overbought  low == Rules.technical.oversold IN
    When(Known(t.rsi) /\ t.rsi >= high,
         {Sig("rsi_overbought", "mean_reversion", -1, (50 * (t.rsi - high)) \div (100 - high) + 50)})
    \cup When(Known(t.rsi) /\ t.rsi <= low,
              {Sig("rsi_oversold", "mean_reversion", 1, (50 * (low - t.rsi)) \div low + 50)})
    \cup When(Known(t.percentB) /\ (t.percentB > 100 \/ t.percentB < 0),
              {Sig("bollinger_extreme", "mean_reversion", 50 - t.percentB, 50)})

BreakoutSignals(t) ==
    When(Known(t.range), {Sig("breakout", "breakout", t.range, IF t.volume >= Rules.technical.breakoutVolume THEN 90 ELSE 50)})
    \cup When(t.squeeze, {Sig("bollinger_squeeze", "breakout", 0, 50)})

VolumeSignals(t) ==
    When(t.expansion >= 120,
         {Sig("volume_expansion", "volume", IF t.month > 0 THEN 1 ELSE -1, t.expansion - 100)})
    \cup When((t.balance > 0) # (t.month > 0) /\ Size(t.month) > 2,
              {Sig("obv_divergence", "volume", IF t.balance > 0 THEN 1 ELSE -1, 40)})

TechnicalSignals(t) == TrendSignals(t) \cup MomentumSignals(t) \cup ReversionSignals(t)
                       \cup BreakoutSignals(t) \cup VolumeSignals(t)

\* Levels whose crossing would invalidate the view, and the price as printed.
Levels(t, tilt) ==
    LET side == Direction(tilt)
        nearest == IF side > 0 THEN t.support ELSE t.resistance
    IN When(side # 0,
            {l \in {nearest, t.average} \ {None} : side * (t.close - l) > 0}
            \cup When(Known(t.atr) /\ t.atr # 0, {t.close - side * Rules.technical.atrMultiple * t.atr}))

Printed(price) == 10 * ((price + 5) \div 10)

LevelsHold(t, tilt) == \A l \in Levels(t, tilt) : Direction(tilt) * (t.close - Printed(l)) > 0

Technical(t) ==
    IF t.bars = 0 THEN NotOk("insufficient_data")
    ELSE IF ~t.usable THEN NotOk("data_unusable")
    ELSE IF t.bars < Rules.technical.minHistory THEN NotOk("insufficient_data")
    ELSE LET c == Composite(TechnicalSignals(t), Rules.technical.weights)
             sure == (c.agreement * c.breadth * t.quality) \div 10000
         IN IF LevelsHold(t, c.tilt) THEN Ok(c.score, IF t.fresh THEN sure ELSE sure \div 2)
            ELSE NotOk("failed")

-----------------------------------------------------------------------------
(* Fundamental: ratios of the last two annual periods, and multiples.       *)

GrowthSignals(f) ==
    LET strong == Rules.fundamental.strongGrowth IN
    When(Known(f.growth),
         {Sig("revenue_growth", "growth", f.growth, (100 * Size(f.growth)) \div strong)}
         \cup When(Known(f.before) /\ Size(f.growth - f.before) >= 3,
                   {Sig("growth_trend", "growth", f.growth - f.before, 10 * Size(f.growth - f.before))}))
    \cup When(Known(f.eps), {Sig("eps_growth", "growth", f.eps, (100 * Size(f.eps)) \div strong)})

Benchmarked(name, ratio, high) ==
    When(Known(ratio), {Sig(name, "profitability", ratio - high, (100 * Size(ratio - high)) \div high)})

ProfitSignals(f) ==
    LET moved == f.margin - f.marginBefore IN
    When(Known(f.margin) /\ Known(f.marginBefore),
         {IF Size(moved) >= Rules.fundamental.marginMove THEN Sig("margin", "profitability", moved, 20 * Size(moved))
          ELSE Sig("margin_stable", "profitability", 0, 30)})
    \cup Benchmarked("roe", f.roe, Rules.fundamental.highRoe)
    \cup Benchmarked("roce", f.roce, Rules.fundamental.highRoce)

\* Industrial leverage and cash tests are skipped for lenders.
SolvencySignals(f) ==
    LET limit == Rules.fundamental.maxDebtToEquity
        cover == Rules.fundamental.minInterestCoverage
        cash == Rules.fundamental.weakCashConversion
        load == (100 * f.debt) \div limit
    IN When(~f.lender,
            When(Known(f.debt),
                 {IF f.debt > limit THEN Sig("leverage", "balance_sheet", -1, load)
                  ELSE Sig("leverage", "balance_sheet", 1, 100 - load)})
            \cup When(Known(f.coverage),
                 {IF f.coverage < cover THEN Sig("interest_coverage", "balance_sheet", -1, 80)
                  ELSE Sig("interest_coverage", "balance_sheet", 1, (10 * f.coverage) \div cover)})
            \cup When(Known(f.conversion),
                 {Sig("cash_conversion", "cash_quality", IF f.conversion < cash THEN -1 ELSE 1,
                      2 * Size(f.conversion - cash))})
            \cup When(Known(f.operating) /\ f.operating < 100,
                 {Sig("earnings_quality", "cash_quality", -1, 100 - f.operating)}))

MultipleSignals(f) ==
    LET r == Rules.fundamental IN
    When(Known(f.pe),
         {IF f.pe >= r.expensivePe THEN Sig("pe_level", "valuation", -1, (100 * f.pe) \div r.expensivePe - 50)
          ELSE IF f.pe <= r.cheapPe THEN Sig("pe_level", "valuation", 1, (100 * r.cheapPe) \div f.pe - 50)
          ELSE Sig("pe_level", "valuation", 0, 30)}
         \cup When(Known(f.peerPe),
                   {Sig("pe_vs_peers", "valuation", f.peerPe - f.pe, Size((100 * f.pe) \div f.peerPe - 100))})
         \cup When(Known(f.eps) /\ f.eps >= r.minGrowthForPeg,
                   LET peg == (100 * f.pe) \div f.eps
                   IN {Sig("peg", "valuation", IF peg < 100 THEN 1 ELSE IF peg > 200 THEN -1 ELSE 0,
                           (2 * Size(peg - 150)) \div 3)}))

FundamentalSignals(f) == GrowthSignals(f) \cup ProfitSignals(f) \cup SolvencySignals(f)
                         \cup MultipleSignals(f)

\* The last two rows are read, whatever number of periods the rules ask for.
Fundamental(f) ==
    IF f.periods < Rules.fundamental.minPeriods THEN NotOk("insufficient_data")
    ELSE IF f.periods < 2 THEN NotOk("failed")
    ELSE LET c == Composite(FundamentalSignals(f), Rules.fundamental.weights)
         IN Ok(c.score, (c.agreement * c.breadth * (IF f.licensed THEN 100 ELSE 90)) \div 10000)

-----------------------------------------------------------------------------
(* Valuation: a discounted cash flow in three scenarios, and multiples      *)
(* relative to peers.  Rates are per mille, growth and margins per cent,    *)
(* amounts and prices in paise.                                             *)

\* The revenues and the discount factors of a projection, year by year.
Compound(base, rate, unit) ==
    LET amount[t \in 0 .. Rules.valuation.years] ==
            IF t = 0 THEN base ELSE (amount[t - 1] * (unit + rate)) \div unit
    IN amount
Revenues(a) == Compound(a.revenue, a.growth, 100)
Discounts(a) == Compound(1000, a.wacc, 1000)

DcfValid(a) == a.wacc > a.terminal /\ a.shares > 0 /\ a.revenue > 0

PerShare(a) ==
    LET n == Rules.valuation.years
        flow(t) == (Revenues(a)[t] * a.margin) \div 100
        present(x, t) == (1000 * x) \div Discounts(a)[t]
        terminal == (flow(n) * (1000 + a.terminal)) \div (a.wacc - a.terminal)
        enterprise == SumFunction([t \in 1 .. n |-> present(flow(t), t)]) + present(terminal, n)
    IN (enterprise - a.debt + a.cash) \div a.shares

\* CAPM cost of equity and the after-tax cost of debt, at market weights.
CostOfCapital(v) ==
    LET r == Rules.valuation
        beta == Between(IF Known(v.beta) THEN v.beta ELSE 100, r.beta.low, r.beta.high)
        equity == r.riskFree + (beta * r.equityPremium) \div 100
        lent == IF v.debt > 0 /\ v.interest > 0 THEN Most(r.riskFree, (1000 * v.interest) \div v.debt)
                ELSE r.riskFree
        debt == (lent * (100 - v.tax)) \div 100
        value == v.price * v.shares
    IN IF value + v.debt = 0 THEN equity ELSE (value * equity + v.debt * debt) \div (value + v.debt)

\* Compound growth of the revenues that are known, within the configured range.
Growth(revenues) ==
    LET r == Rules.valuation
        k == Len(revenues) - 1
        first == revenues[1]  last == Last(revenues)
        reached == {g \in r.minGrowth .. r.maxGrowth : first * (100 + g)^k <= last * 100^k}
    IN IF k < 1 \/ first <= 0 \/ last <= 0 THEN None
       ELSE IF reached = {} THEN r.minGrowth ELSE CHOOSE g \in reached : \A o \in reached : o <= g

Clip(growth) == Between(growth, Rules.valuation.minGrowth, Rules.valuation.maxGrowth)

Mean(margins) == SumFunction(margins) \div Len(margins)

Assumed_flatRate(v, name) ==
    LET r == Rules.valuation
        side == CASE name = "bear" -> -1 [] name = "base" -> 0 [] name = "bull" -> 1
    IN [revenue |-> Last(v.revenues), debt |-> v.debt, cash |-> v.cash, shares |-> v.shares,
        growth |-> Clip(Growth(v.revenues) + side * r.growthSpread),
        margin |-> Mean(v.margins),
        wacc |-> CostOfCapital(v) + side * r.waccSpread,
        terminal |-> r.terminal["base"]]

\* What each scenario assumes of growth, margin, discount rate and terminal growth.
Assumed(v, name) ==
    LET r == Rules.valuation
        margins == ToSet(v.margins)
        side == CASE name = "bear" -> -1 [] name = "base" -> 0 [] name = "bull" -> 1
    IN [revenue |-> Last(v.revenues), debt |-> v.debt, cash |-> v.cash, shares |-> v.shares,
        growth |-> Clip(Growth(v.revenues) + side * r.growthSpread),
        margin |-> CASE name = "bear" -> Min(margins) [] name = "base" -> Mean(v.margins)
                     [] name = "bull" -> Max(margins),
        wacc |-> CostOfCapital(v) - side * r.waccSpread,
        terminal |-> r.terminal[name]]

Computed(v) == /\ ~v.lender /\ v.complete /\ v.margins # <<>>
               /\ Growth(v.revenues) # None
               /\ Mean(v.margins) > 0

\* Fair value per share in each scenario that could be computed.
Scenarios(v) ==
    LET names == {n \in {"bear", "base", "bull"} : Computed(v) /\ DcfValid(Assumed(v, n))}
    IN [n \in names |-> PerShare(Assumed(v, n))]

Reliable(v) == /\ \A m \in ToSet(v.margins) : m > 0
               /\ Mean(v.margins) >= 5
               /\ \A n \in DOMAIN Scenarios(v) : Scenarios(v)[n] > 0

\* The margin of safety that is scored, None when no reliable base case exists.
Safety(v) ==
    IF Computed(v) /\ Reliable(v) /\ "base" \in DOMAIN Scenarios(v)
    THEN (100 * Scenarios(v)["base"]) \div v.price - 100
    ELSE None

PeerSignals(v) ==
    {Sig(k, "relative", -v.peers[k], Size(v.peers[k])) : k \in {x \in DOMAIN v.peers : Known(v.peers[x])}}

\* tanh is used for its sign, its bounds and its monotony only.
Squashed(x) == (100 * x) \div (Rules.valuation.mosScale + Size(x))

ValuationScore(v) ==
    IF Known(Safety(v)) THEN 5000 + 50 * Squashed(Safety(v))
    ELSE 5000 + (50 * Net(PeerSignals(v))) \div Cardinality(PeerSignals(v))

\* One over one plus the spread of the scenarios; a spread of zero counts as one.
ValuationConfidence(v) ==
    LET s == Scenarios(v)
        spread == IF {"bear", "bull"} \subseteq DOMAIN s THEN (100 * (s["bull"] - s["bear"])) \div v.price
                  ELSE 0
    IN IF Safety(v) = None THEN 0 ELSE 10000 \div (100 + (IF spread = 0 THEN 100 ELSE spread))

Valuation(v) ==
    IF v.periods < 2 \/ v.price = None THEN NotOk("insufficient_data")
    ELSE IF Safety(v) = None /\ PeerSignals(v) = {} THEN NotOk("insufficient_data")
    ELSE Ok(ValuationScore(v), ValuationConfidence(v))

\* An amount as it is printed: to the nearest rupee, a tie to the even one.
WholeRupees(amount) ==
    LET rupees == amount \div 100
        paise == amount % 100
        up == paise > 50 \/ (paise = 50 /\ rupees % 2 = 1)
    IN 100 * (IF up THEN rupees + 1 ELSE rupees)

\* The price at which the view is said to be void, None when none is named.
ValuationLimit(v) ==
    IF ValuationScore(v) > 5000 /\ "bull" \in DOMAIN Scenarios(v)
    THEN WholeRupees(Scenarios(v)["bull"])
    ELSE IF ValuationScore(v) < 5000 /\ "bear" \in DOMAIN Scenarios(v)
    THEN WholeRupees(Scenarios(v)["bear"])
    ELSE None

-----------------------------------------------------------------------------
(* News, macro and portfolio fit.                                          *)

\* Headlines with a consistent date and a sentiment.  The label is the model's own
\* and need not have the sign of the score.
Scored(items) == {i \in items : ~i.early /\ Known(i.sentiment)}

\* An event's importance, halved with every half-life of its age.
Weight(i) == (100 * i.importance) \div 2^(i.age \div Rules.news.halfLife)

Contradictions(items) ==
    LET telling == {i \in items : i.event # "other" /\ i.label # 0}
    IN {e \in {i.event : i \in telling} \ {"sector", "rating_change"} :
          \E a, b \in telling : /\ a.event = e /\ b.event = e /\ a.label > 0 /\ b.label < 0
                                /\ Size(a.age - b.age) <= Rules.news.window}
       \cup When({"earnings_beat", "earnings_miss"} \subseteq {i.event : i \in telling}, {"opposite"})

\* The eight headlines that weigh most, with those that weigh the same.
Loudest(items) == {i \in items : Cardinality({j \in items : Weight(j) > Weight(i)}) < 8}

NewsSignals(items) ==
    LET top == Max({Weight(i) : i \in items})
    IN {Sig(i, i.event, i.label, (Size(i.sentiment) * Weight(i)) \div top) : i \in Loudest(items)}

News(n) ==
    LET items == Scored(n.items)
        total == SumFunction([i \in items |-> Weight(i)])
        tone == SumFunction([i \in items |-> Weight(i) * i.sentiment])
        sure == (Agreement(NewsSignals(items)) * Least(10, Cardinality(items))) \div 10
    IN IF ~n.installed THEN NotOk("not_active")
       ELSE IF Cardinality(items) < Rules.news.minItems THEN NotOk("insufficient_data")
       ELSE Ok(5000 + (50 * tone) \div total,
               IF Contradictions(items) = {} THEN sure ELSE sure \div 2)

MacroSignals(x) ==
    LET sens == Rules.macro.sensitivities[x.sector]
        seen == {s \in DOMAIN sens : Known(x.change[s])}
        scale(s) == IF s \in Rules.macro.rates THEN 1 ELSE 10
    IN {Sig(s, "macro", sens[s] * x.change[s],
            (Least(100, (100 * Size(x.change[s])) \div scale(s)) * Size(sens[s])) \div 100) : s \in seen}

RegimeSignal(x) ==
    Sig("market_regime", "regime", CASE x.regime = "risk_on" -> 1 [] x.regime = "risk_off" -> -1
                                     [] OTHER -> 0, 60)

Macro(x) ==
    LET drivers == MacroSignals(x)
        all == drivers \cup {RegimeSignal(x)}
        share == (100 * Cardinality(drivers)) \div Cardinality(DOMAIN Rules.macro.sensitivities[x.sector])
    IN IF drivers = {} THEN NotOk("insufficient_data")
       ELSE Ok(5000 + (50 * Net(all)) \div Cardinality(all),
               (Agreement(all) * share * (IF x.sector = "none" THEN 50 ELSE 100)) \div 10000)

\* A failed limit is the trade's doing if its stock or sector is among the
\* offenders or the check did not fail before.
Caused(p) == {l \in DOMAIN p.limits : /\ p.limits[l].after = "FAIL"
                                      /\ p.limits[l].offends \/ p.limits[l].before # "FAIL"}

FitSignals(p) ==
    (IF Caused(p) = {} THEN {Sig("limits", "limits", 1, 50)}
     ELSE {Sig(l, "limits", -1, 100) : l \in Caused(p)})
    \cup When(Known(p.correlation), {Sig("diversification", "diversification", 50 - p.correlation,
                                         2 * Size(p.correlation - 50))})
    \cup When(Known(p.volatility), {Sig("marginal_volatility", "volatility", -p.volatility,
                                        50 * Size(p.volatility))})
    \cup When(Known(p.room), {Sig("sector_room", "sector", p.room,
                                  (100 * Size(p.room)) \div Rules.portfolio.maxSectorWeight)})

PortfolioFit(p) ==
    IF p.price = None THEN NotOk("insufficient_data")
    ELSE IF \E l \in DOMAIN p.limits : p.limits[l].after = "UNKNOWN" THEN NotOk("insufficient_data")
    ELSE LET c == Composite(FitSignals(p), Rules.portfolio.weights)
         IN Ok(c.score, (c.agreement * c.breadth) \div 100)
================================================================================
