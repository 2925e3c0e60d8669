------------------------------ MODULE TradeGates ------------------------------
(***************************************************************************)
(* The trade risk engine (app/trade): a proposal is judged by 24 gates over *)
(* a context that is read from the database, and approved only when every   *)
(* gate that applies to it passes.                                          *)
(*                                                                          *)
(* Prices are small integers; fractions and basis points are per mille;    *)
(* None is a fact the system does not have.  Only what the gates compare    *)
(* is kept of a fact.                                                       *)
(***************************************************************************)
EXTENDS Integers, FiniteSets

CONSTANTS None,        \* "not known"
          Config,      \* thresholds of aegis.yaml that the engine reads
          Proposals,   \* trades that clients propose
          Usual,       \* the facts of an ordinary day: fact |-> value
          Unusual,     \* what else a fact may be: fact |-> set of values
          MaxOdd,      \* how many facts are unusual at a time
          Breakages    \* sets of gates that raise an exception in one evaluation

Facts == DOMAIN Usual
Thresholds == {"deviation", "quality", "age", "conflicts", "calibration", "periods",
               "profit", "net", "benchmark", "edge", "minDays", "maxDays",
               "rewardRisk", "adtv", "participation", "spread", "halfSpread",
               "fixedCost", "impact", "financing", "risk", "orderValue", "kelly",
               "volatility", "weight", "sector", "gross", "daily", "weekly", "drawdown"}

ASSUME ConfigAssumption == \A t \in Thresholds : Config[t] \in Nat
ASSUME NoneAssumption == None \notin Int

Values(f) == {Usual[f]} \cup Unusual[f]

ASSUME FactAssumption ==
    /\ Usual = [f \in Facts |-> Usual[f]]
    /\ {"kill", "mode", "flag", "broker", "sizing", "stock", "close", "fresh", "licensed",
        "quality", "adtv", "volatility", "report", "estimate", "kind", "cash", "held",
        "others", "sector", "peers", "elsewhere", "unclassified", "rest", "snapshots",
        "start"} \subseteq Facts
    /\ Values("cash") \subseteq Nat /\ Values("held") \subseteq Nat
    /\ Values("others") \subseteq Nat \cup {None}
    /\ Values("close") \subseteq (Nat \ {0}) \cup {None}
    /\ Values("adtv") \subseteq Nat \cup {None} /\ Values("volatility") \subseteq Nat \cup {None}
    /\ \A f \in {"peers", "elsewhere", "unclassified", "start"} : Values(f) \subseteq Nat
    /\ Values("rest") \subseteq {"PASS", "FAIL", "UNKNOWN"}
    /\ Values("snapshots") \subseteq [{"day", "week", "peak"} -> Nat \cup {None}]
    /\ \A e \in Values("estimate") \ {None} : e.gross \in Int /\ e.profit \in 0 .. 1000
ASSUME ProposalAssumption ==
    \A p \in Proposals :
        /\ p = [field \in DOMAIN p |-> p[field]]
        /\ {"side", "mode", "qty", "entry", "stop", "target", "horizon", "spread"} \subseteq DOMAIN p
        /\ p.mode # None /\ p.horizon \in Nat /\ p.spread \in Nat \cup {None}
        /\ p.qty \in Nat \ {0} /\ p.entry \in Nat \ {0}
        /\ p.stop \in (Nat \ {0}) \cup {None} /\ p.target \in (Nat \ {0}) \cup {None}

VARIABLES world,      \* what the database and the configuration say
          decision    \* the decision just stored, None before one is

vars == <<world, decision>>

PassIf(holds) == IF holds THEN "PASS" ELSE "FAIL"
PassIfKnown(fact, holds) == IF fact = None THEN "UNKNOWN" ELSE PassIf(holds)

IsExit(p) == p.side = "sell"
OrderValue(p) == p.entry * p.qty
Larger(a, b) == IF a >= b THEN a ELSE b
Smaller(a, b) == IF a <= b THEN a ELSE b

-----------------------------------------------------------------------------
(* The context (context.build and portfolio.analyze)                        *)

History(w, f) == IF w.stock = None \/ w.close = None THEN None ELSE w[f]

\* Cash and holdings at the last close; one holding without a price and the
\* equity is unknown.
Equity(w) ==
    IF \/ w.kind = None \/ w.others = None
       \/ w.held > 0 /\ History(w, "close") = None
    THEN None
    ELSE w.cash + w.others + (IF w.held > 0 THEN w.held * w.close ELSE 0)

PositionAfter_newSharesOnly(p, w) == p.qty * w.close
PositionAfter(p, w) == (w.held + p.qty) * w.close
CashAfter(p, w) == w.cash - OrderValue(p)

\* What shares a sector limit with the stock: the holdings in its sector ("peers"), or
\* those without one when the stock's own sector is not on record either.
Bucket(p, w) ==
    (IF w.sector = None THEN w.unclassified ELSE w.peers) + PositionAfter(p, w)

TooHeavy(value, equity) == 1000 * value > Config.sector * equity

\* Only a sector on record can fail ("elsewhere" is the heaviest of the others); the
\* holdings without one leave it open when they alone are too heavy.
SectorLimit(p, w, equity) ==
    LET classified == {w.elsewhere, IF w.sector = None THEN w.peers ELSE Bucket(p, w)}
        unclassified == IF w.sector = None THEN Bucket(p, w) ELSE w.unclassified
    IN  IF \E value \in classified : TooHeavy(value, equity) THEN "FAIL"
        ELSE IF TooHeavy(unclassified, equity) THEN "UNKNOWN" ELSE "PASS"

\* The limits of the portfolio with the shares bought at the limit price and marked
\* at the last close.  "rest" is what the limits say of the other holdings
\* themselves, of their weights and their traded value.
LimitChecks(p, w, equity) ==
    (IF History(w, "close") = None
     THEN {"UNKNOWN"}
     ELSE {PassIf(1000 * PositionAfter(p, w) <= Config.weight * equity),
           SectorLimit(p, w, equity),
           PassIf(1000 * (PositionAfter(p, w) + w.others) <= Config.gross * equity),
           PassIf(CashAfter(p, w) >= 0)})
    \cup {PassIfKnown(History(w, "adtv"), w.adtv >= Config.adtv), w.rest}

LimitsAfter_unknownPasses(p, w, equity) ==
    PassIf("FAIL" \notin LimitChecks(p, w, equity))

LimitsAfter(p, w, equity) ==
    LET checks == LimitChecks(p, w, equity)
    IN  IF "FAIL" \in checks THEN "FAIL"
        ELSE IF "UNKNOWN" \in checks THEN "UNKNOWN" ELSE "PASS"

\* The last equity stored before the day or the week began; the starting cash where
\* none is.
Baseline(w, period) == IF w.snapshots[period] = None THEN w.start ELSE w.snapshots[period]
Peak(w, equity) ==
    Larger(Larger(w.start, equity), IF w.snapshots.peak = None THEN 0 ELSE w.snapshots.peak)

Fallen(equity, from, limit) == from > 0 /\ 1000 * equity <= (1000 - limit) * from

Losses(w, equity) ==
    IF equity = None THEN None
    ELSE IF \/ Fallen(equity, Baseline(w, "day"), Config.daily)
            \/ Fallen(equity, Baseline(w, "week"), Config.weekly)
            \/ Fallen(equity, Peak(w, equity), Config.drawdown)
         THEN "breached" ELSE "within"

Build(p, w) ==
    LET equity == Equity(w) IN
    [kill |-> w.kill, mode |-> w.mode, flag |-> w.flag, broker |-> w.broker,
     sizing |-> w.sizing, stock |-> w.stock, kind |-> w.kind, equity |-> equity,
     held |-> IF w.kind = None \/ w.stock = None THEN 0 ELSE w.held,
     close |-> History(w, "close"), fresh |-> History(w, "fresh"),
     licensed |-> History(w, "licensed"), quality |-> History(w, "quality"),
     adtv |-> History(w, "adtv"), volatility |-> History(w, "volatility"),
     report |-> IF w.stock = None THEN None ELSE w.report,
     estimate |-> IF w.stock = None THEN None ELSE w.estimate,
     limits |-> IF w.stock = None \/ IsExit(p) \/ equity = None \/ equity = 0
                THEN None ELSE LimitsAfter(p, w, equity),
     losses |-> Losses(w, equity)]

-----------------------------------------------------------------------------
(* Costs (costs.round_trip), per mille of the order's value                 *)

\* The quote comes from the proposal: it may raise the spread, never lower it.
SpreadPaid(p) ==
    LET quoted == IF p.spread = None
                  THEN IF IsExit(p) THEN Config.spread ELSE 0
                  ELSE p.spread
    IN  Larger(quoted, 2 * Config.halfSpread)

CostsKnown(c) == c.adtv # None /\ c.adtv # 0

RoundTrip_chargePerOrder(p, c) ==
    Config.fixedCost + SpreadPaid(p) + 3000 \div OrderValue(p)
        + (2 * Config.impact * OrderValue(p)) \div c.adtv
        + (Config.financing * p.horizon) \div 252

RoundTrip(p, c) ==
    Config.fixedCost + SpreadPaid(p)
        + (2 * Config.impact * OrderValue(p)) \div c.adtv
        + (Config.financing * p.horizon) \div 252

\* The model's estimate for the proposal's horizon (_prob).
Estimate(p, c) ==
    IF c.estimate = None THEN None
    ELSE IF c.estimate.horizon = p.horizon THEN c.estimate ELSE None

NetReturn(p, c) == Estimate(p, c).gross - RoundTrip(p, c)
NetKnown(p, c, broken) ==
    /\ Estimate(p, c) # None
    /\ CostsKnown(c)
    /\ "expected_net_return" \notin broken

\* Reward and risk after costs, in thousandths of the entry price times the price.
PlanHolds(p) ==
    /\ p.stop # None /\ p.target # None
    /\ p.stop < p.entry /\ p.entry < p.target
Reward(p, c) == 1000 * (p.target - p.entry) - RoundTrip(p, c) * p.entry
Risk(p, c) == 1000 * (p.entry - p.stop) + RoundTrip(p, c) * p.entry

-----------------------------------------------------------------------------
(* Position sizing                                                          *)

SharesForRisk(p, c) == (c.equity * Config.risk) \div (1000 * (p.entry - p.stop))
SharesForValue(p, c) == (c.equity * Config.orderValue) \div (1000 * p.entry)
SharesForVolatility(p, c) ==
    Smaller(c.equity, (c.equity * Config.volatility) \div c.volatility) \div p.entry

\* P - (1 - P) / (reward/risk), per mille.
KellyFraction(p, c) ==
    LET profit == Estimate(p, c).profit
    IN  Larger(0, profit - ((1000 - profit) * Risk(p, c)) \div Reward(p, c))
SharesForKelly(p, c) ==
    (c.equity * Config.kelly * KellyFraction(p, c)) \div (1000000 * p.entry)

KellyKnown(p, c, broken) ==
    /\ Estimate(p, c) # None /\ CostsKnown(c) /\ PlanHolds(p)
    /\ "reward_risk" \notin broken
    /\ Reward(p, c) > 0

PositionSizing(p, c, broken) ==
    IF c.equity = None \/ c.equity = 0 THEN "UNKNOWN"
    ELSE IF p.stop = None \/ p.stop >= p.entry THEN "FAIL"
    ELSE LET cap == Smaller(SharesForRisk(p, c), SharesForValue(p, c)) IN
         CASE c.sizing = "volatility_target" ->
                IF c.volatility = None \/ c.volatility = 0 THEN "UNKNOWN"
                ELSE PassIf(p.qty <= cap /\ p.qty <= SharesForVolatility(p, c))
           [] c.sizing = "fractional_kelly" ->
                IF ~KellyKnown(p, c, broken) THEN "UNKNOWN"
                ELSE PassIf(p.qty <= cap /\ p.qty <= SharesForKelly(p, c))
           [] OTHER -> PassIf(p.qty <= cap)

-----------------------------------------------------------------------------
(* The gates, each a function of the proposal and the context               *)

ExecutionMode(p, c) ==
    IF p.mode = "paper" THEN PassIf(c.mode = "paper")
    ELSE IF c.mode # "live" \/ ~c.flag THEN "FAIL"
    ELSE PassIfKnown(c.broker, c.broker = "healthy")

Instrument(p, c) ==
    PassIf(c.stock = "listed" /\ (IsExit(p) => p.qty <= c.held))

\* Entries rest on the model's inputs too, when there is a model.
DataLicensed(p, c) ==
    IF c.licensed = None THEN "UNKNOWN"
    ELSE IF ~c.licensed THEN "FAIL"
    ELSE IF IsExit(p) \/ Estimate(p, c) = None THEN "PASS"
    ELSE PassIfKnown(Estimate(p, c).licensed, Estimate(p, c).licensed)

Deviation(p, c) == IF p.entry >= c.close THEN p.entry - c.close ELSE c.close - p.entry

ResearchReport(c) ==
    PassIfKnown(c.report, c.report.verified /\ c.report.age \in 0 .. Config.age)

ExpectedNet(p, c) ==
    IF Estimate(p, c) = None \/ ~CostsKnown(c) THEN "UNKNOWN"
    ELSE PassIf(NetReturn(p, c) >= Config.net)

Edge(p, c, broken) ==
    IF ~NetKnown(p, c, broken) THEN "UNKNOWN"
    ELSE PassIf(NetReturn(p, c) - (Config.benchmark * p.horizon) \div 252 >= Config.edge)

\* The ratio is compared in tenths.
RewardRisk(p, c) ==
    IF ~PlanHolds(p) THEN "FAIL"
    ELSE IF ~CostsKnown(c) THEN "UNKNOWN"
    ELSE PassIf(10 * Reward(p, c) >= Config.rewardRisk * Risk(p, c))

Participation(p, c) ==
    IF ~CostsKnown(c) THEN "UNKNOWN"
    ELSE PassIf(1000 * OrderValue(p) <= Config.participation * c.adtv)

\* An exit without a quote is costed at the widest spread that passes.
Spread(p) ==
    IF p.spread = None THEN IF IsExit(p) THEN "PASS" ELSE "UNKNOWN"
    ELSE PassIf(SpreadPaid(p) <= Config.spread)

Judgements(p, c, broken) ==
    LET e == Estimate(p, c) IN
    [kill_switch |-> IF c.kill = "unreadable" THEN "UNKNOWN" ELSE PassIf(c.kill = "off"),
     execution_mode |-> ExecutionMode(p, c),
     portfolio_match |-> PassIf(c.kind = p.mode),
     instrument |-> Instrument(p, c),
     data_licensed |-> DataLicensed(p, c),
     data_freshness |-> PassIfKnown(c.fresh, c.fresh),
     data_quality |-> PassIfKnown(c.quality, c.quality >= Config.quality),
     entry_deviation |-> PassIfKnown(c.close, 1000 * Deviation(p, c) <= Config.deviation * c.close),
     research_report |-> ResearchReport(c),
     research_stance |-> PassIfKnown(c.report, c.report.positive),
     agent_conflicts |-> PassIfKnown(c.report, c.report.conflicts <= Config.conflicts),
     model_calibration |-> PassIfKnown(e, e.calibrated /\ e.error <= Config.calibration),
     out_of_sample |-> PassIfKnown(e, e.periods >= Config.periods),
     probability_of_profit |-> PassIfKnown(e, e.profit >= Config.profit),
     expected_net_return |-> ExpectedNet(p, c),
     edge_vs_benchmark |-> Edge(p, c, broken),
     trade_plan |-> PassIf(PlanHolds(p) /\ p.horizon \in Config.minDays .. Config.maxDays),
     reward_risk |-> RewardRisk(p, c),
     liquidity |-> PassIfKnown(c.adtv, c.adtv >= Config.adtv),
     participation |-> Participation(p, c),
     spread |-> Spread(p),
     position_sizing |-> PositionSizing(p, c, broken),
     portfolio_limits |-> IF c.limits = None THEN "UNKNOWN" ELSE c.limits,
     loss_limits |-> PassIfKnown(c.losses, c.losses = "within")]

ExitGates_withLossLimits ==
    {"kill_switch", "execution_mode", "portfolio_match", "instrument", "data_licensed",
     "data_freshness", "data_quality", "entry_deviation", "participation", "spread",
     "loss_limits"}

ExitGates == {"kill_switch", "execution_mode", "portfolio_match", "instrument",
              "data_licensed", "data_freshness", "data_quality", "entry_deviation",
              "participation", "spread"}
EntryGates == {"research_report", "research_stance", "agent_conflicts", "model_calibration",
               "out_of_sample", "probability_of_profit", "expected_net_return",
               "edge_vs_benchmark", "trade_plan", "reward_risk", "liquidity",
               "position_sizing", "portfolio_limits", "loss_limits"}
Gates == ExitGates \cup EntryGates

ASSUME BreakageAssumption == \A broken \in Breakages : broken \subseteq Gates

Applies(g, p) == IsExit(p) => g \in ExitGates

Status_brokenIsSkipped(g, p, judged, broken) ==
    IF ~Applies(g, p) \/ g \in broken THEN "NOT_APPLICABLE" ELSE judged[g]

\* A gate that raises an exception fails.
Status(g, p, judged, broken) ==
    IF ~Applies(g, p) THEN "NOT_APPLICABLE"
    ELSE IF g \in broken THEN "FAIL"
    ELSE judged[g]

FailedGates(p, c, broken) ==
    LET judged == Judgements(p, c, broken)
    IN  {g \in Gates : Status(g, p, judged, broken) \in {"FAIL", "UNKNOWN"}}

Approves(p, c, broken) == FailedGates(p, c, broken) = {}

-----------------------------------------------------------------------------
(* Behaviour                                                                *)

Odd(w) == {f \in Facts : w[f] # Usual[f]}

\* service.submit: the context is built, judged, and stored with the decision.
Submit ==
    \E p \in Proposals, broken \in Breakages :
        /\ decision = None
        /\ LET c == Build(p, world) IN
           decision' = [proposal |-> p, context |-> c, broken |-> broken,
                        approved |-> Approves(p, c, broken)]
        /\ UNCHANGED world

\* A fact is learnt, lost or changes; the next proposal is judged anew.
Change ==
    \E f \in Facts : \E v \in Values(f) :
        /\ world' = [world EXCEPT ![f] = v]
        /\ Cardinality(Odd(world')) <= MaxOdd
        /\ decision' = None

Init == world = Usual /\ decision = None

Next == Submit \/ Change

Spec == Init /\ [][Next]_vars

-----------------------------------------------------------------------------
(* Properties                                                               *)

\* What the decision just stored says of a trade in a world.
Judged(p, w, broken) == Approves(p, Build(p, w), broken)

\* A decision's gates have one of the statuses that a stored result may have.
TypeOK ==
    /\ DOMAIN world = Facts
    /\ \A f \in Facts : world[f] \in Values(f)
    /\ decision # None =>
          /\ decision.proposal \in Proposals
          /\ decision.broken \in Breakages
          /\ decision.approved \in BOOLEAN
          /\ decision.context.limits \in {None, "PASS", "FAIL", "UNKNOWN"}

NoSnapshots == [period \in {"day", "week", "peak"} |-> None]

\* How the system loses a fact.
Unread(f) == CASE f = "kill" -> "unreadable"
               [] f = "rest" -> "UNKNOWN"
               [] f = "snapshots" -> NoSnapshots
               [] OTHER -> None

\* The facts whose loss the context shows as a loss, and those that it replaces by
\* something else ("unclassified", the starting cash), with the gate that reads them.
Losable == {"kill", "stock", "close", "quality", "adtv", "volatility",
            "report", "estimate", "kind", "others", "rest"}
Replaced == [sector |-> "portfolio_limits", snapshots |-> "loss_limits"]

\* Not knowing something that the context shows as unknown never turns a refusal into
\* an approval: whatever else is the case, losing one more such fact, or the quote of
\* an entry, approves nothing that was rejected (evaluate: FAIL and UNKNOWN both
\* reject).  It is not so for the two facts that are replaced when they are lost
\* (analyze, loss_state): a lost sector and lost snapshots may lift a refusal, but only
\* one that was due to nothing but the limits they are read for.
IgnoranceNeverHelps ==
    decision # None /\ ~decision.approved =>
        LET p == decision.proposal IN
        /\ \A f \in Losable :
             ~Judged(p, [world EXCEPT ![f] = Unread(f)], decision.broken)
        /\ ~IsExit(p) => ~Judged([p EXCEPT !.spread = None], world, decision.broken)
        /\ \A f \in DOMAIN Replaced :
             Judged(p, [world EXCEPT ![f] = Unread(f)], decision.broken)
             => FailedGates(p, decision.context, decision.broken) = {Replaced[f]}

\* A gate that raises never approves what it would have refused, and refuses what
\* it applies to; also when a later gate uses what it would have computed.
BreakageNeverHelps ==
    decision # None /\ decision.approved =>
        /\ Judged(decision.proposal, world, {})
        /\ \A g \in decision.broken : ~Applies(g, decision.proposal)

\* An approved entry fits its portfolio: what it loses at its stop and what it
\* costs are within their shares of the equity, its cash is there, the whole position
\* stays within its weight, and so does its sector, or, when the sector is not on
\* record, all that has none (position_sizing and portfolio_limits together).
ApprovedEntryFits ==
    decision # None /\ decision.approved /\ ~IsExit(decision.proposal) =>
        LET p == decision.proposal
            equity == decision.context.equity
        IN  /\ p.stop < p.entry /\ p.entry < p.target
            /\ 1000 * p.qty * (p.entry - p.stop) <= Config.risk * equity
            /\ 1000 * OrderValue(p) <= Config.orderValue * equity
            /\ 1000 * (world.held + p.qty) * world.close <= Config.weight * equity
            /\ LET together == IF world.sector = None THEN world.unclassified ELSE world.peers
               IN  1000 * (together + (world.held + p.qty) * world.close)
                       <= Config.sector * equity
            /\ OrderValue(p) <= world.cash

\* What is approved is approved for one share less: costs, participation, sizing
\* and limits all grow with the quantity, so splitting an order gains nothing and
\* reducing one is never refused.
SmallerIsSafer ==
    decision # None /\ decision.approved /\ decision.proposal.qty > 1 =>
        Judged([decision.proposal EXCEPT !.qty = @ - 1], world, decision.broken)

\* Facts about the entry case, the model and the health of the portfolio.
ResearchFacts == {"report", "estimate", "volatility", "sizing", "cash", "others", "sector",
                  "peers", "elsewhere", "unclassified", "rest", "snapshots", "start"}

\* An exit is never blocked, nor helped, by research, the model or portfolio
\* limits: only facts of its safety gates decide about it (the entry-only gates).
ExitsIgnoreResearch ==
    decision # None /\ IsExit(decision.proposal) =>
        \A f \in ResearchFacts : \A v \in Unusual[f] :
            Judged(decision.proposal, [world EXCEPT ![f] = v], decision.broken)
                = decision.approved
=============================================================================
