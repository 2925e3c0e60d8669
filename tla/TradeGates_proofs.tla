--------------------------- MODULE TradeGates_proofs ---------------------------
(***************************************************************************)
(* What the gates guarantee for any thresholds, facts and proposals.        *)
(***************************************************************************)
EXTENDS TradeGates, TLAPS

\* The decision just stored is the engine's verdict on its proposal in this world.
DecisionHolds ==
    decision # None =>
        /\ decision.proposal \in Proposals
        /\ decision.broken \in Breakages
        /\ decision.context = Build(decision.proposal, world)
        /\ decision.approved = Judged(decision.proposal, world, decision.broken)

WorldHolds ==
    /\ world = [f \in Facts |-> world[f]]
    /\ \A f \in Facts : world[f] \in Values(f)

Engine == DecisionHolds /\ WorldHolds

LEMMA EngineInit == Init => Engine
  BY FactAssumption DEF Init, Engine, DecisionHolds, WorldHolds, Values

LEMMA EngineStep == Engine /\ [Next]_vars => Engine'
<1> SUFFICES ASSUME Engine, [Next]_vars PROVE Engine'
  OBVIOUS
<1>1. CASE Submit
  <2>1. PICK p \in Proposals, broken \in Breakages :
           decision' = [proposal |-> p, context |-> Build(p, world), broken |-> broken,
                        approved |-> Approves(p, Build(p, world), broken)]
    BY <1>1 DEF Submit
  <2>2. world' = world
    BY <1>1 DEF Submit
  <2>3. /\ decision'.proposal = p /\ decision'.broken = broken
        /\ decision'.context = Build(p, world)
        /\ decision'.approved = Approves(p, Build(p, world), broken)
    BY <2>1
  <2>4. WorldHolds'
    BY <2>2 DEF Engine, WorldHolds
  <2>5. /\ (decision.context = Build(decision.proposal, world))'
        /\ (decision.approved = Judged(decision.proposal, world, decision.broken))'
    BY <2>2, <2>3 DEF Judged
  <2> QED
    BY <2>3, <2>4, <2>5 DEF Engine, DecisionHolds
<1>2. CASE Change
  BY <1>2 DEF Change, Engine, DecisionHolds, WorldHolds
<1>3. CASE UNCHANGED vars
  BY <1>3 DEF vars, Engine, DecisionHolds, WorldHolds, Judged
<1> QED
  BY <1>1, <1>2, <1>3 DEF Next

LEMMA EngineInv == Spec => []Engine
  BY EngineInit, EngineStep, PTL DEF Spec

LEMMA EngineIsTyped == Engine => TypeOK
<1> SUFFICES ASSUME Engine PROVE TypeOK
  OBVIOUS
<1>1. DOMAIN world = Facts /\ \A f \in Facts : world[f] \in Values(f)
  BY DEF Engine, WorldHolds
<1>2. ASSUME decision # None
      PROVE  /\ decision.proposal \in Proposals
             /\ decision.broken \in Breakages
             /\ decision.approved \in BOOLEAN
             /\ decision.context.limits \in {None, "PASS", "FAIL", "UNKNOWN"}
  <2>1. Judged(decision.proposal, world, decision.broken) \in BOOLEAN
    BY DEF Judged, Approves
  <2>2. Build(decision.proposal, world).limits \in {None, "PASS", "FAIL", "UNKNOWN"}
    BY DEF Build, LimitsAfter
  <2> QED
    BY <1>2, <2>1, <2>2 DEF Engine, DecisionHolds
<1> QED
  BY <1>1, <1>2 DEF TypeOK

\* Stored decisions are about proposals that were made, and their limits have one of
\* the statuses a stored gate result may have.
THEOREM EngineTypes == Spec => []TypeOK
  BY EngineInv, EngineIsTyped, PTL

-----------------------------------------------------------------------------
(* Gates that must have passed                                              *)

\* A gate that applies to an approved proposal passed.
LEMMA ApprovedPasses ==
    ASSUME NEW p, NEW c, NEW broken, Approves(p, c, broken), NEW g \in Gates, Applies(g, p)
    PROVE  /\ g \notin broken
           /\ Judgements(p, c, broken)[g] \notin {"FAIL", "UNKNOWN"}
<1> DEFINE j == Judgements(p, c, broken)
<1> HIDE DEF j
<1>1. FailedGates(p, c, broken) = {h \in Gates : Status(h, p, j, broken) \in {"FAIL", "UNKNOWN"}}
  BY DEF FailedGates, j
<1>2. Status(g, p, j, broken) \notin {"FAIL", "UNKNOWN"}
  BY <1>1 DEF Approves
<1>3. g \notin broken /\ j[g] \notin {"FAIL", "UNKNOWN"}
  BY <1>2 DEF Status
<1> QED
  BY <1>3 DEF j

\* A quantity within a cap obtained by division is within what was divided.
LEMMA Shares ==
    ASSUME NEW total \in Nat, NEW unit \in Nat \ {0}, NEW qty \in Nat, qty <= total \div unit
    PROVE  qty * unit <= total
<1>1. /\ total \div unit \in Nat
      /\ unit * (total \div unit) <= total
  BY Z3
<1>2. qty * unit <= (total \div unit) * unit
  BY <1>1, Z3
<1> QED
  BY <1>1, <1>2, Z3

-----------------------------------------------------------------------------
(* What an approved entry fits into                                         *)

LEMMA EquityIsNat ==
    ASSUME WorldHolds, Equity(world) # None
    PROVE  Equity(world) \in Nat
<1>1. /\ world.cash \in Nat /\ world.held \in Nat
      /\ world.others \in Nat \cup {None}
      /\ world.close \in (Nat \ {0}) \cup {None}
  BY FactAssumption DEF WorldHolds
<1> QED
  BY <1>1 DEF Equity, History

LEMMA EntryIsSized ==
    ASSUME NEW p \in Proposals, NEW c, NEW broken, c.equity \in Nat \cup {None},
           PositionSizing(p, c, broken) \notin {"FAIL", "UNKNOWN"}
    PROVE  /\ c.equity \in Nat
           /\ 1000 * p.qty * (p.entry - p.stop) <= Config.risk * c.equity
           /\ 1000 * OrderValue(p) <= Config.orderValue * c.equity
<1>1. /\ p.qty \in Nat \ {0} /\ p.entry \in Nat \ {0}
      /\ p.stop \in (Nat \ {0}) \cup {None}
  BY ProposalAssumption
<1>2. c.equity \in Nat /\ p.stop \in Nat \ {0} /\ p.stop < p.entry
  BY <1>1 DEF PositionSizing
<1>3. Config.risk \in Nat /\ Config.orderValue \in Nat
  BY ConfigAssumption DEF Thresholds
<1> DEFINE byRisk == SharesForRisk(p, c)
           byValue == SharesForValue(p, c)
           perShare == 1000 * (p.entry - p.stop)
<1>4. perShare \in Nat \ {0} /\ 1000 * p.entry \in Nat \ {0}
  BY <1>1, <1>2
<1>5. c.equity * Config.risk \in Nat /\ c.equity * Config.orderValue \in Nat
  BY <1>2, <1>3
<1>6. byRisk \in Nat /\ byValue \in Nat
  BY <1>4, <1>5, Z3 DEF SharesForRisk, SharesForValue
<1>7. p.qty <= byRisk /\ p.qty <= byValue
  <2> HIDE DEF byRisk, byValue
  <2>1. p.qty <= Smaller(byRisk, byValue)
    BY <1>2 DEF PositionSizing, PassIf, byRisk, byValue
  <2> QED
    BY <1>1, <1>6, <2>1 DEF Smaller
<1>8. p.qty * perShare <= c.equity * Config.risk
  BY <1>1, <1>4, <1>5, <1>7, Shares DEF SharesForRisk
<1>9. p.qty * (1000 * p.entry) <= c.equity * Config.orderValue
  BY <1>1, <1>4, <1>5, <1>7, Shares DEF SharesForValue
<1> HIDE DEF perShare, byRisk, byValue
<1>10. 1000 * p.qty * (p.entry - p.stop) <= Config.risk * c.equity
  BY <1>1, <1>2, <1>3, <1>8, Z3 DEF perShare
<1>11. 1000 * OrderValue(p) <= Config.orderValue * c.equity
  BY <1>1, <1>2, <1>3, <1>9, Z3 DEF OrderValue
<1> QED
  BY <1>2, <1>10, <1>11

LEMMA LimitsPass ==
    ASSUME NEW p \in Proposals, WorldHolds, NEW broken, ~IsExit(p),
           Approves(p, Build(p, world), broken)
    PROVE  /\ Equity(world) # None
           /\ world.close \in Nat
           /\ 1000 * PositionAfter(p, world) <= Config.weight * Equity(world)
           /\ SectorLimit(p, world, Equity(world)) = "PASS"
           /\ CashAfter(p, world) >= 0
<1> DEFINE c == Build(p, world)
<1>1. "portfolio_limits" \in Gates /\ Applies("portfolio_limits", p)
  BY DEF Gates, EntryGates, Applies
<1>2. Judgements(p, c, broken)["portfolio_limits"] \notin {"FAIL", "UNKNOWN"}
  BY <1>1, ApprovedPasses
<1>3. Judgements(p, c, broken)["portfolio_limits"]
         = IF c.limits = None THEN "UNKNOWN" ELSE c.limits
  BY DEF Judgements
<1>4. c.limits # None /\ c.limits \notin {"FAIL", "UNKNOWN"}
  <2> HIDE DEF c
  <2> QED
    BY <1>2, <1>3
<1>5. /\ Equity(world) # None
      /\ LimitsAfter(p, world, Equity(world)) \notin {"FAIL", "UNKNOWN"}
  BY <1>4 DEF Build
<1>6. LimitChecks(p, world, Equity(world)) \cap {"FAIL", "UNKNOWN"} = {}
  BY <1>5 DEF LimitsAfter
<1>7. History(world, "close") # None
  BY <1>6 DEF LimitChecks
<1>8. /\ 1000 * PositionAfter(p, world) <= Config.weight * Equity(world)
      /\ SectorLimit(p, world, Equity(world)) \notin {"FAIL", "UNKNOWN"}
      /\ CashAfter(p, world) >= 0
  BY <1>6, <1>7 DEF LimitChecks, PassIf
<1>9. world.close \in Nat
  BY <1>7, FactAssumption DEF History, WorldHolds
<1>10. SectorLimit(p, world, Equity(world)) \in {"PASS", "FAIL", "UNKNOWN"}
  BY DEF SectorLimit
<1> QED
  BY <1>5, <1>8, <1>9, <1>10

\* The bucket that the stock counts to is within the limit of a sector.
LEMMA BucketFits ==
    ASSUME NEW p \in Proposals, WorldHolds, world.close \in Nat, NEW equity \in Nat,
           SectorLimit(p, world, equity) = "PASS"
    PROVE  1000 * Bucket(p, world) <= Config.sector * equity
<1>1. /\ p.qty \in Nat /\ world.held \in Nat /\ Config.sector \in Nat
      /\ world.unclassified \in Nat /\ world.peers \in Nat
  BY FactAssumption, ProposalAssumption, ConfigAssumption DEF WorldHolds, Thresholds
<1>2. Bucket(p, world) \in Nat /\ Config.sector * equity \in Nat
  <2>1. PositionAfter(p, world) \in Nat
    BY <1>1, Z3 DEF PositionAfter
  <2> QED
    BY <1>1, <2>1, Z3 DEF Bucket
<1>3. ~TooHeavy(Bucket(p, world), equity)
  BY DEF SectorLimit
<1> QED
  BY <1>2, <1>3 DEF TooHeavy

LEMMA EntryFits == Engine => ApprovedEntryFits
<1> SUFFICES ASSUME Engine, decision # None, decision.approved, ~IsExit(decision.proposal)
             PROVE  LET p == decision.proposal
                        equity == decision.context.equity
                    IN  /\ p.stop < p.entry /\ p.entry < p.target
                        /\ 1000 * p.qty * (p.entry - p.stop) <= Config.risk * equity
                        /\ 1000 * OrderValue(p) <= Config.orderValue * equity
                        /\ 1000 * (world.held + p.qty) * world.close <= Config.weight * equity
                        /\ LET together == IF world.sector = None THEN world.unclassified
                                           ELSE world.peers
                           IN  1000 * (together + (world.held + p.qty) * world.close)
                                   <= Config.sector * equity
                        /\ OrderValue(p) <= world.cash
  BY DEF ApprovedEntryFits
<1> DEFINE p == decision.proposal
           broken == decision.broken
           c == Build(p, world)
<1>1. p \in Proposals /\ WorldHolds /\ decision.context = c /\ Approves(p, c, broken)
  BY DEF Engine, DecisionHolds, Judged
<1>2. c.equity = Equity(world)
  BY DEF Build
<1> HIDE DEF p, broken, c
<1>3. ~IsExit(p) /\ \A g \in EntryGates : g \in Gates /\ Applies(g, p)
  BY DEF p, Applies, Gates
<1>4. /\ Equity(world) # None /\ world.close \in Nat
      /\ 1000 * PositionAfter(p, world) <= Config.weight * Equity(world)
      /\ SectorLimit(p, world, Equity(world)) = "PASS"
      /\ CashAfter(p, world) >= 0
  BY <1>1, <1>3, LimitsPass DEF c
<1>5. Equity(world) \in Nat
  BY <1>1, <1>4, EquityIsNat
<1>6. PositionSizing(p, c, broken) \notin {"FAIL", "UNKNOWN"}
  <2>1. Judgements(p, c, broken)["position_sizing"] = PositionSizing(p, c, broken)
    BY DEF Judgements
  <2> QED
    BY <1>1, <1>3, <2>1, ApprovedPasses DEF EntryGates
<1>7. PlanHolds(p)
  <2>1. Judgements(p, c, broken)["trade_plan"]
           = PassIf(PlanHolds(p) /\ p.horizon \in Config.minDays .. Config.maxDays)
    BY DEF Judgements
  <2>2. PassIf(PlanHolds(p) /\ p.horizon \in Config.minDays .. Config.maxDays) # "FAIL"
    BY <1>1, <1>3, <2>1, ApprovedPasses DEF EntryGates
  <2> QED
    BY <2>2 DEF PassIf
<1>8. /\ 1000 * p.qty * (p.entry - p.stop) <= Config.risk * Equity(world)
      /\ 1000 * OrderValue(p) <= Config.orderValue * Equity(world)
  BY <1>1, <1>2, <1>5, <1>6, EntryIsSized
<1>9. /\ p.qty \in Nat /\ p.entry \in Nat /\ world.held \in Nat /\ world.cash \in Nat
      /\ Config.weight \in Nat
  BY <1>1, FactAssumption, ProposalAssumption, ConfigAssumption DEF WorldHolds, Thresholds
<1>10. 1000 * (world.held + p.qty) * world.close <= Config.weight * Equity(world)
  BY <1>4, <1>5, <1>9, Z3 DEF PositionAfter
<1>11. OrderValue(p) <= world.cash
  BY <1>4, <1>9, Z3 DEF CashAfter, OrderValue
<1>12. 1000 * Bucket(p, world) <= Config.sector * Equity(world)
  BY <1>1, <1>4, <1>5, BucketFits
<1>13. LET together == IF world.sector = None THEN world.unclassified ELSE world.peers
       IN  1000 * (together + (world.held + p.qty) * world.close)
               <= Config.sector * Equity(world)
  BY <1>9, <1>12 DEF Bucket, PositionAfter
<1> QED
  BY <1>1, <1>2, <1>7, <1>8, <1>10, <1>11, <1>13 DEF PlanHolds, p

\* An approved entry fits its portfolio: its loss at the stop, its value, the whole
\* position, its sector or what has none, and the cash, for any thresholds and any facts (position_sizing and
\* portfolio_limits together).
THEOREM ApprovedEntriesFit == Spec => []ApprovedEntryFits
  BY EngineInv, EntryFits, PTL

-----------------------------------------------------------------------------
(* What decides about an exit                                               *)

ExitFields == {"kill", "mode", "flag", "broker", "stock", "kind", "held", "close", "fresh",
               "licensed", "quality", "adtv"}

\* Two contexts that agree on the fields of the exit gates.
Agree(c, d) == \A x \in ExitFields : c[x] = d[x]

LEMMA ExitJudgements ==
    ASSUME NEW p, NEW c, NEW d, NEW broken, NEW other, IsExit(p), Agree(c, d)
    PROVE  \A g \in ExitGates : Judgements(p, c, broken)[g] = Judgements(p, d, other)[g]
<1>1. /\ c.kill = d.kill /\ c.mode = d.mode /\ c.flag = d.flag /\ c.broker = d.broker
      /\ c.stock = d.stock /\ c.kind = d.kind /\ c.held = d.held /\ c.close = d.close
      /\ c.fresh = d.fresh /\ c.licensed = d.licensed /\ c.quality = d.quality
      /\ c.adtv = d.adtv
  BY DEF Agree, ExitFields
<1> DEFINE j == Judgements(p, c, broken)
           k == Judgements(p, d, other)
<1>2. j.kill_switch = k.kill_switch /\ j.execution_mode = k.execution_mode
  BY <1>1 DEF Judgements, ExecutionMode, PassIfKnown
<1>3. j.portfolio_match = k.portfolio_match /\ j.instrument = k.instrument
  BY <1>1 DEF Judgements, Instrument
<1>4. j.data_licensed = k.data_licensed
  BY <1>1 DEF Judgements, DataLicensed
<1>5. j.data_freshness = k.data_freshness /\ j.data_quality = k.data_quality
  BY <1>1 DEF Judgements
<1>6. j.entry_deviation = k.entry_deviation
  BY <1>1 DEF Judgements, Deviation
<1>7. j.participation = k.participation /\ j.spread = k.spread
  BY <1>1 DEF Judgements, Participation, CostsKnown
<1> HIDE DEF j, k
<1>8. \A g \in ExitGates : j[g] = k[g]
  BY <1>2, <1>3, <1>4, <1>5, <1>6, <1>7 DEF ExitGates
<1> QED
  BY <1>8 DEF j, k

\* Gates that raise matter to an exit only when they are among its own.
LEMMA ExitVerdict ==
    ASSUME NEW p, NEW c, NEW d, NEW broken, NEW other, IsExit(p), Agree(c, d),
           broken \cap ExitGates = other \cap ExitGates
    PROVE  Approves(p, c, broken) <=> Approves(p, d, other)
<1> DEFINE j == Judgements(p, c, broken)
           k == Judgements(p, d, other)
<1>1. \A g \in ExitGates : j[g] = k[g]
  BY ExitJudgements
<1> HIDE DEF j, k
<1>2. ASSUME NEW g \in Gates PROVE Status(g, p, j, broken) = Status(g, p, k, other)
  BY <1>1 DEF Status, Applies
<1>3. {g \in Gates : Status(g, p, j, broken) \in {"FAIL", "UNKNOWN"}}
         = {g \in Gates : Status(g, p, k, other) \in {"FAIL", "UNKNOWN"}}
  BY <1>2
<1> QED
  BY <1>3 DEF Approves, FailedGates, j, k

LEMMA ResearchIsNotRead ==
    ASSUME WorldHolds, NEW p, NEW f \in ResearchFacts, NEW v, IsExit(p)
    PROVE  Agree(Build(p, world), Build(p, [world EXCEPT ![f] = v]))
<1> DEFINE w == [world EXCEPT ![f] = v]
<1>1. \A x \in Facts \ {f} : w[x] = world[x]
  BY DEF WorldHolds
<1>2. ExitFields \cap ResearchFacts = {}
  BY DEF ExitFields, ResearchFacts
<1>3. ExitFields \subseteq Facts
  BY FactAssumption DEF ExitFields
<1>4. \A x \in ExitFields : w[x] = world[x]
  BY <1>1, <1>2, <1>3
<1> HIDE DEF w
<1>5. /\ w.kill = world.kill /\ w.mode = world.mode /\ w.flag = world.flag
      /\ w.broker = world.broker /\ w.stock = world.stock /\ w.kind = world.kind
      /\ w.held = world.held /\ w.close = world.close /\ w.fresh = world.fresh
      /\ w.licensed = world.licensed /\ w.quality = world.quality /\ w.adtv = world.adtv
  BY <1>4 DEF ExitFields
<1> DEFINE c == Build(p, world)
           d == Build(p, w)
<1>6. /\ c.kill = d.kill /\ c.mode = d.mode /\ c.flag = d.flag /\ c.broker = d.broker
      /\ c.stock = d.stock /\ c.kind = d.kind /\ c.held = d.held
  BY <1>5 DEF Build
<1>7. /\ c.close = d.close /\ c.fresh = d.fresh /\ c.licensed = d.licensed
      /\ c.quality = d.quality /\ c.adtv = d.adtv
  BY <1>5 DEF Build, History
<1> HIDE DEF c, d
<1>8. Agree(c, d)
  BY <1>6, <1>7 DEF Agree, ExitFields
<1> QED
  BY <1>8 DEF c, d, w

LEMMA ExitsIgnore == Engine => ExitsIgnoreResearch
<1> SUFFICES ASSUME Engine, decision # None, IsExit(decision.proposal),
                    NEW f \in ResearchFacts, NEW v \in Unusual[f]
             PROVE  Judged(decision.proposal, [world EXCEPT ![f] = v], decision.broken)
                        = decision.approved
  BY DEF ExitsIgnoreResearch
<1>1. decision.approved = Judged(decision.proposal, world, decision.broken)
  BY DEF Engine, DecisionHolds
<1>2. Agree(Build(decision.proposal, world),
            Build(decision.proposal, [world EXCEPT ![f] = v]))
  BY ResearchIsNotRead DEF Engine
<1>3. Judged(decision.proposal, world, decision.broken)
         <=> Judged(decision.proposal, [world EXCEPT ![f] = v], decision.broken)
  BY <1>2, ExitVerdict DEF Judged
<1>4. /\ Judged(decision.proposal, world, decision.broken) \in BOOLEAN
      /\ Judged(decision.proposal, [world EXCEPT ![f] = v], decision.broken) \in BOOLEAN
  BY DEF Judged, Approves
<1> QED
  BY <1>1, <1>3, <1>4

\* An exit is judged by its safety gates only, whatever the thresholds, the report,
\* the model, the limits and the losses are (the entry-only gates of GATES).
THEOREM ExitsAreNotBlocked == Spec => []ExitsIgnoreResearch
  BY EngineInv, ExitsIgnore, PTL

-----------------------------------------------------------------------------
(* Gates that raise                                                         *)

LEMMA BreakageHelpsNot == Engine => BreakageNeverHelps
<1> SUFFICES ASSUME Engine, decision # None, decision.approved
             PROVE  /\ Judged(decision.proposal, world, {})
                    /\ \A g \in decision.broken : ~Applies(g, decision.proposal)
  BY DEF BreakageNeverHelps
<1> DEFINE p == decision.proposal
           broken == decision.broken
           c == Build(p, world)
<1>1. Approves(p, c, broken) /\ broken \in Breakages
  BY DEF Engine, DecisionHolds, Judged
<1> HIDE DEF p, broken, c
<1>2. broken \subseteq Gates
  BY <1>1, BreakageAssumption
<1>3. \A g \in broken : ~Applies(g, p)
  BY <1>1, <1>2, ApprovedPasses
<1>4. CASE IsExit(p)
  <2>1. broken \cap ExitGates = {} \cap ExitGates
    BY <1>3 DEF Applies
  <2>2. Agree(c, c)
    BY DEF Agree
  <2>3. Approves(p, c, {})
    BY <1>1, <1>4, <2>1, <2>2, ExitVerdict
  <2> QED
    BY <1>3, <2>3 DEF Judged, p, broken, c
<1>5. CASE ~IsExit(p)
  <2>1. broken = {}
    BY <1>3, <1>5 DEF Applies
  <2>2. Approves(p, c, {})
    BY <1>1, <2>1
  <2> QED
    BY <1>3, <2>2 DEF Judged, p, broken, c
<1> QED
  BY <1>4, <1>5

\* A gate that raises approves nothing that all the gates together would refuse, and
\* refuses what it applies to (evaluate's except clause and the metrics it skips).
THEOREM CrashesReject == Spec => []BreakageNeverHelps
  BY EngineInv, BreakageHelpsNot, PTL

-----------------------------------------------------------------------------
(* What is not known                                                        *)

\* One gate that is undecided, or fails, is enough to reject.
LEMMA Rejected ==
    ASSUME NEW p, NEW c, NEW broken, NEW g \in Gates, Applies(g, p),
           Judgements(p, c, broken)[g] \in {"FAIL", "UNKNOWN"}
    PROVE  ~Approves(p, c, broken)
  BY ApprovedPasses

\* Losing one of these facts rejects entries and exits alike.
LEMMA SafetyFactLost ==
    ASSUME WorldHolds, NEW p \in Proposals, NEW broken,
           NEW f \in {"kill", "stock", "close", "quality", "adtv", "kind"}
    PROVE  ~Judged(p, [world EXCEPT ![f] = Unread(f)], broken)
<1> DEFINE w == [world EXCEPT ![f] = Unread(f)]
           c == Build(p, w)
           j == Judgements(p, c, broken)
<1>1. w[f] = Unread(f) /\ f \in Facts
  BY FactAssumption DEF WorldHolds
<1>2. \A g \in ExitGates : g \in Gates /\ Applies(g, p)
  BY DEF Gates, Applies
<1> HIDE DEF w
<1>3. CASE f = "kill"
  <2>1. j["kill_switch"] = "UNKNOWN"
    BY <1>1, <1>3 DEF Judgements, Build, Unread
  <2> QED
    BY <1>2, <2>1, Rejected DEF ExitGates, Judged, w
<1>4. CASE f = "stock" \/ f = "close"
  <2>1. c.licensed = None
    BY <1>1, <1>4 DEF Build, History, Unread
  <2>2. j["data_licensed"] = "UNKNOWN"
    BY <2>1 DEF Judgements, DataLicensed
  <2> QED
    BY <1>2, <2>2, Rejected DEF ExitGates, Judged, w
<1>5. CASE f = "quality"
  <2>1. c.quality = None
    BY <1>1, <1>5 DEF Build, History, Unread
  <2>2. j["data_quality"] = "UNKNOWN"
    BY <2>1 DEF Judgements, PassIfKnown
  <2> QED
    BY <1>2, <2>2, Rejected DEF ExitGates, Judged, w
<1>6. CASE f = "adtv"
  <2>1. c.adtv = None
    BY <1>1, <1>6 DEF Build, History, Unread
  <2>2. j["participation"] = "UNKNOWN"
    BY <2>1 DEF Judgements, Participation, CostsKnown
  <2> QED
    BY <1>2, <2>2, Rejected DEF ExitGates, Judged, w
<1>7. CASE f = "kind"
  <2>1. c.kind = None
    BY <1>1, <1>7 DEF Build, Unread
  <2>2. j["portfolio_match"] = "FAIL"
    BY <2>1, ProposalAssumption DEF Judgements, PassIf
  <2> QED
    BY <1>2, <2>2, Rejected DEF ExitGates, Judged, w
<1> QED
  BY <1>3, <1>4, <1>5, <1>6, <1>7

\* Losing one of these rejects every entry.
LEMMA EntryFactLost ==
    ASSUME WorldHolds, NEW p \in Proposals, NEW broken, ~IsExit(p),
           NEW f \in {"report", "estimate", "others", "rest"}
    PROVE  ~Judged(p, [world EXCEPT ![f] = Unread(f)], broken)
<1> DEFINE w == [world EXCEPT ![f] = Unread(f)]
           c == Build(p, w)
           j == Judgements(p, c, broken)
<1>1. w[f] = Unread(f) /\ f \in Facts
  BY FactAssumption DEF WorldHolds
<1>2. \A g \in EntryGates : g \in Gates /\ Applies(g, p)
  BY DEF Gates, Applies
<1> HIDE DEF w
<1>3. CASE f = "report"
  <2>1. c.report = None
    BY <1>1, <1>3 DEF Build, Unread
  <2>2. j["research_report"] = "UNKNOWN"
    BY <2>1 DEF Judgements, ResearchReport, PassIfKnown
  <2> QED
    BY <1>2, <2>2, Rejected DEF EntryGates, Judged, w
<1>4. CASE f = "estimate"
  <2>1. c.estimate = None
    BY <1>1, <1>4 DEF Build, Unread
  <2>2. j["model_calibration"] = "UNKNOWN"
    BY <2>1 DEF Judgements, Estimate, PassIfKnown
  <2> QED
    BY <1>2, <2>2, Rejected DEF EntryGates, Judged, w
<1>5. CASE f = "others"
  <2>1. Equity(w) = None
    BY <1>1, <1>5 DEF Equity, Unread
  <2>2. c.limits = None
    BY <2>1 DEF Build
  <2>3. j["portfolio_limits"] = "UNKNOWN"
    BY <2>2 DEF Judgements
  <2> QED
    BY <1>2, <2>3, Rejected DEF EntryGates, Judged, w
<1>6. CASE f = "rest"
  <2>1. "UNKNOWN" \in LimitChecks(p, w, Equity(w))
    BY <1>1, <1>6 DEF LimitChecks, Unread
  <2>2. LimitsAfter(p, w, Equity(w)) \in {"FAIL", "UNKNOWN"}
    BY <2>1 DEF LimitsAfter
  <2>3. c.limits = None \/ c.limits \in {"FAIL", "UNKNOWN"}
    BY <2>2 DEF Build
  <2>4. j["portfolio_limits"] = IF c.limits = None THEN "UNKNOWN" ELSE c.limits
    BY DEF Judgements
  <2>5. j["portfolio_limits"] \in {"FAIL", "UNKNOWN"}
    <3> HIDE DEF c, j
    <3> QED
      BY <2>3, <2>4
  <2> QED
    BY <1>2, <2>5, Rejected DEF EntryGates, Judged, w
<1> QED
  BY <1>3, <1>4, <1>5, <1>6

\* The volatility matters to sizing only, and only where it is the sizing method.
LEMMA VolatilityLost ==
    ASSUME WorldHolds, NEW p \in Proposals, NEW broken, ~IsExit(p),
           Judged(p, [world EXCEPT !["volatility"] = None], broken)
    PROVE  Judged(p, world, broken)
<1> DEFINE w == [world EXCEPT !["volatility"] = None]
           c == Build(p, w)
           d == Build(p, world)
           j == Judgements(p, c, broken)
           k == Judgements(p, d, broken)
<1>1. \A x \in Facts \ {"volatility"} : w[x] = world[x]
  BY DEF WorldHolds
<1>2. w.volatility = None
  BY FactAssumption DEF WorldHolds
<1>3. Approves(p, c, broken)
  BY DEF Judged
<1> HIDE DEF w
<1>4. /\ w.kill = world.kill /\ w.mode = world.mode /\ w.flag = world.flag
      /\ w.broker = world.broker /\ w.stock = world.stock /\ w.kind = world.kind
      /\ w.held = world.held /\ w.close = world.close /\ w.fresh = world.fresh
      /\ w.licensed = world.licensed /\ w.quality = world.quality /\ w.adtv = world.adtv
      /\ w.sizing = world.sizing /\ w.report = world.report /\ w.estimate = world.estimate
      /\ w.cash = world.cash /\ w.others = world.others /\ w.sector = world.sector
      /\ w.peers = world.peers /\ w.elsewhere = world.elsewhere
      /\ w.unclassified = world.unclassified /\ w.rest = world.rest
      /\ w.snapshots = world.snapshots /\ w.start = world.start
  BY <1>1, FactAssumption
<1>5. Equity(w) = Equity(world)
  BY <1>4 DEF Equity, History
<1>6. /\ LimitsAfter(p, w, Equity(w)) = LimitsAfter(p, world, Equity(world))
      /\ Losses(w, Equity(w)) = Losses(world, Equity(world))
  <2>1. SectorLimit(p, w, Equity(w)) = SectorLimit(p, world, Equity(world))
    BY <1>4, <1>5 DEF SectorLimit, Bucket, PositionAfter
  <2>2. LimitChecks(p, w, Equity(w)) = LimitChecks(p, world, Equity(world))
    BY <1>4, <1>5, <2>1 DEF LimitChecks, History, PositionAfter, CashAfter
  <2>3. Losses(w, Equity(w)) = Losses(world, Equity(world))
    BY <1>4, <1>5 DEF Losses, Baseline, Peak
  <2> QED
    BY <2>2, <2>3 DEF LimitsAfter
<1>7. c.volatility = None
  BY <1>2 DEF Build, History
<1>8. /\ c.kill = d.kill /\ c.mode = d.mode /\ c.flag = d.flag /\ c.broker = d.broker
      /\ c.stock = d.stock /\ c.kind = d.kind /\ c.held = d.held /\ c.sizing = d.sizing
      /\ c.report = d.report /\ c.estimate = d.estimate /\ c.equity = d.equity
      /\ c.limits = d.limits /\ c.losses = d.losses
      /\ c.close = d.close /\ c.fresh = d.fresh /\ c.licensed = d.licensed
      /\ c.quality = d.quality /\ c.adtv = d.adtv
  BY <1>4, <1>5, <1>6 DEF Build, History
<1>9. j.position_sizing \notin {"FAIL", "UNKNOWN"}
  BY <1>3, ApprovedPasses DEF Gates, EntryGates, Applies
<1> HIDE DEF c, d
<1>10. /\ Estimate(p, c) = Estimate(p, d) /\ CostsKnown(c) = CostsKnown(d)
       /\ RoundTrip(p, c) = RoundTrip(p, d)
  BY <1>8 DEF Estimate, CostsKnown, RoundTrip
<1>11. /\ NetReturn(p, c) = NetReturn(p, d) /\ Reward(p, c) = Reward(p, d)
       /\ Risk(p, c) = Risk(p, d) /\ NetKnown(p, c, broken) = NetKnown(p, d, broken)
  BY <1>10 DEF NetReturn, Reward, Risk, NetKnown
<1>12. /\ j.kill_switch = k.kill_switch /\ j.execution_mode = k.execution_mode
       /\ j.portfolio_match = k.portfolio_match /\ j.instrument = k.instrument
       /\ j.data_freshness = k.data_freshness /\ j.data_quality = k.data_quality
       /\ j.entry_deviation = k.entry_deviation
  BY <1>8 DEF Judgements, ExecutionMode, Instrument, Deviation, PassIfKnown
<1>13. /\ j.data_licensed = k.data_licensed /\ j.research_report = k.research_report
       /\ j.research_stance = k.research_stance /\ j.agent_conflicts = k.agent_conflicts
       /\ j.model_calibration = k.model_calibration /\ j.out_of_sample = k.out_of_sample
       /\ j.probability_of_profit = k.probability_of_profit
  BY <1>8, <1>10 DEF Judgements, DataLicensed, ResearchReport
<1>14. /\ j.expected_net_return = k.expected_net_return
       /\ j.edge_vs_benchmark = k.edge_vs_benchmark
       /\ j.trade_plan = k.trade_plan /\ j.reward_risk = k.reward_risk
  BY <1>10, <1>11 DEF Judgements, ExpectedNet, Edge, RewardRisk
<1>15. /\ j.liquidity = k.liquidity /\ j.participation = k.participation
       /\ j.spread = k.spread /\ j.portfolio_limits = k.portfolio_limits
       /\ j.loss_limits = k.loss_limits
  BY <1>8, <1>10 DEF Judgements, Participation
<1>16. j.position_sizing = k.position_sizing
  <2>1. j.position_sizing = PositionSizing(p, c, broken)
        /\ k.position_sizing = PositionSizing(p, d, broken)
    BY DEF Judgements
  <2>2. c.sizing # "volatility_target"
    BY <1>7, <1>9, <2>1 DEF PositionSizing
  <2>3. /\ SharesForRisk(p, c) = SharesForRisk(p, d)
        /\ SharesForValue(p, c) = SharesForValue(p, d)
    BY <1>8 DEF SharesForRisk, SharesForValue
  <2>4. KellyKnown(p, c, broken) = KellyKnown(p, d, broken)
    BY <1>10, <1>11 DEF KellyKnown
  <2>5. SharesForKelly(p, c) = SharesForKelly(p, d)
    BY <1>8, <1>10, <1>11 DEF SharesForKelly, KellyFraction
  <2> QED
    BY <1>8, <2>1, <2>2, <2>3, <2>4, <2>5 DEF PositionSizing
<1> HIDE DEF j, k
<1>17. \A g \in Gates : j[g] = k[g]
  BY <1>12, <1>13, <1>14, <1>15, <1>16 DEF Gates, ExitGates, EntryGates
<1>18. FailedGates(p, c, broken) = FailedGates(p, d, broken)
  BY <1>17 DEF FailedGates, Status, j, k
<1> QED
  BY <1>3, <1>18 DEF Approves, Judged, d

LEMMA QuoteLost ==
    ASSUME NEW p \in Proposals, NEW broken, ~IsExit(p)
    PROVE  ~Judged([p EXCEPT !.spread = None], world, broken)
<1> DEFINE q == [p EXCEPT !.spread = None]
           c == Build(q, world)
<1>1. q.spread = None /\ ~IsExit(q)
  BY ProposalAssumption DEF IsExit
<1> HIDE DEF q
<1>2. Judgements(q, c, broken)["spread"] = "UNKNOWN"
  BY <1>1 DEF Judgements, Spread
<1>3. "spread" \in Gates /\ Applies("spread", q)
  BY DEF Gates, ExitGates, Applies
<1> QED
  BY <1>2, <1>3, Rejected DEF Judged, q

\* Contexts that differ in nothing but the limits and the losses.
SameCase(c, d) ==
    /\ c.kill = d.kill /\ c.mode = d.mode /\ c.flag = d.flag /\ c.broker = d.broker
    /\ c.sizing = d.sizing /\ c.stock = d.stock /\ c.kind = d.kind /\ c.equity = d.equity
    /\ c.held = d.held /\ c.close = d.close /\ c.fresh = d.fresh /\ c.licensed = d.licensed
    /\ c.quality = d.quality /\ c.adtv = d.adtv /\ c.volatility = d.volatility
    /\ c.report = d.report /\ c.estimate = d.estimate

LEMMA SameJudgements ==
    ASSUME NEW p, NEW c, NEW d, NEW broken, SameCase(c, d)
    PROVE  \A g \in Gates \ {"portfolio_limits", "loss_limits"} :
              Judgements(p, c, broken)[g] = Judgements(p, d, broken)[g]
<1> DEFINE j == Judgements(p, c, broken)
           k == Judgements(p, d, broken)
<1>1. /\ Estimate(p, c) = Estimate(p, d) /\ CostsKnown(c) = CostsKnown(d)
      /\ RoundTrip(p, c) = RoundTrip(p, d)
  BY DEF SameCase, Estimate, CostsKnown, RoundTrip
<1>2. /\ NetReturn(p, c) = NetReturn(p, d)
      /\ Reward(p, c) = Reward(p, d) /\ Risk(p, c) = Risk(p, d)
  BY <1>1 DEF NetReturn, Reward, Risk
<1>3. /\ NetKnown(p, c, broken) = NetKnown(p, d, broken)
      /\ KellyKnown(p, c, broken) = KellyKnown(p, d, broken)
  BY <1>1, <1>2 DEF NetKnown, KellyKnown
<1>4. SharesForKelly(p, c) = SharesForKelly(p, d)
  BY <1>1, <1>2 DEF SameCase, SharesForKelly, KellyFraction
<1>5. /\ SharesForRisk(p, c) = SharesForRisk(p, d)
      /\ SharesForValue(p, c) = SharesForValue(p, d)
      /\ SharesForVolatility(p, c) = SharesForVolatility(p, d)
  BY DEF SameCase, SharesForRisk, SharesForValue, SharesForVolatility
<1>6. PositionSizing(p, c, broken) = PositionSizing(p, d, broken)
  BY <1>3, <1>4, <1>5 DEF SameCase, PositionSizing
<1>7. /\ j.kill_switch = k.kill_switch /\ j.execution_mode = k.execution_mode
      /\ j.portfolio_match = k.portfolio_match /\ j.instrument = k.instrument
  BY DEF SameCase, Judgements, ExecutionMode, Instrument, PassIfKnown
<1>8. /\ j.data_licensed = k.data_licensed /\ j.data_freshness = k.data_freshness
      /\ j.data_quality = k.data_quality /\ j.entry_deviation = k.entry_deviation
  BY <1>1 DEF SameCase, Judgements, DataLicensed, Deviation
<1>9. /\ j.research_report = k.research_report /\ j.research_stance = k.research_stance
      /\ j.agent_conflicts = k.agent_conflicts /\ j.liquidity = k.liquidity
  BY DEF SameCase, Judgements, ResearchReport
<1>10. /\ j.model_calibration = k.model_calibration /\ j.out_of_sample = k.out_of_sample
       /\ j.probability_of_profit = k.probability_of_profit
  BY <1>1 DEF Judgements
<1>11. /\ j.expected_net_return = k.expected_net_return
       /\ j.edge_vs_benchmark = k.edge_vs_benchmark
  BY <1>1, <1>2, <1>3 DEF Judgements, ExpectedNet, Edge
<1>12. /\ j.trade_plan = k.trade_plan /\ j.reward_risk = k.reward_risk
       /\ j.participation = k.participation /\ j.spread = k.spread
       /\ j.position_sizing = k.position_sizing
  BY <1>1, <1>2, <1>6 DEF SameCase, Judgements, RewardRisk, Participation
<1> HIDE DEF j, k
<1>13. \A g \in Gates \ {"portfolio_limits", "loss_limits"} : j[g] = k[g]
  BY <1>7, <1>8, <1>9, <1>10, <1>11, <1>12 DEF Gates, ExitGates, EntryGates
<1> QED
  BY <1>13 DEF j, k

\* A lost sector is read by the limits of the portfolio only, lost snapshots by those
\* on losses.
LEMMA ReplacedIsReadOnce ==
    ASSUME WorldHolds, NEW p, NEW broken, NEW f \in DOMAIN Replaced
    PROVE  LET c == Build(p, [world EXCEPT ![f] = Unread(f)])
               d == Build(p, world)
           IN  \A g \in Gates \ {Replaced[f]} :
                  Judgements(p, c, broken)[g] = Judgements(p, d, broken)[g]
<1> DEFINE w == [world EXCEPT ![f] = Unread(f)]
           c == Build(p, w)
           d == Build(p, world)
           j == Judgements(p, c, broken)
           k == Judgements(p, d, broken)
<1>1. f \in {"sector", "snapshots"}
  BY DEF Replaced
<1>2. \A x \in Facts \ {f} : w[x] = world[x]
  BY DEF WorldHolds
<1> HIDE DEF w
<1>3. /\ w.kill = world.kill /\ w.mode = world.mode /\ w.flag = world.flag
      /\ w.broker = world.broker /\ w.stock = world.stock /\ w.kind = world.kind
      /\ w.held = world.held /\ w.close = world.close /\ w.fresh = world.fresh
      /\ w.licensed = world.licensed /\ w.quality = world.quality /\ w.adtv = world.adtv
      /\ w.volatility = world.volatility /\ w.sizing = world.sizing
      /\ w.report = world.report /\ w.estimate = world.estimate
      /\ w.cash = world.cash /\ w.others = world.others
      /\ w.peers = world.peers /\ w.elsewhere = world.elsewhere
      /\ w.unclassified = world.unclassified /\ w.rest = world.rest
      /\ w.start = world.start
  BY <1>1, <1>2, FactAssumption
<1>4. Equity(w) = Equity(world)
  BY <1>3 DEF Equity, History
<1>5. SameCase(c, d)
  <2>1. /\ c.kill = d.kill /\ c.mode = d.mode /\ c.flag = d.flag /\ c.broker = d.broker
        /\ c.stock = d.stock /\ c.kind = d.kind /\ c.held = d.held /\ c.sizing = d.sizing
        /\ c.report = d.report /\ c.estimate = d.estimate /\ c.equity = d.equity
    BY <1>3, <1>4 DEF Build
  <2>2. /\ c.close = d.close /\ c.fresh = d.fresh /\ c.licensed = d.licensed
        /\ c.quality = d.quality /\ c.adtv = d.adtv /\ c.volatility = d.volatility
    BY <1>3 DEF Build, History
  <2> HIDE DEF c, d
  <2> QED
    BY <2>1, <2>2 DEF SameCase
<1>6. CASE f = "sector"
  <2>1. w.snapshots = world.snapshots
    BY <1>2, <1>6, FactAssumption
  <2>2. Losses(w, Equity(w)) = Losses(world, Equity(world))
    BY <1>3, <1>4, <2>1 DEF Losses, Baseline, Peak
  <2>3. c.losses = d.losses
    BY <2>2 DEF Build
  <2>4. j["loss_limits"] = k["loss_limits"]
    BY <2>3 DEF Judgements, PassIfKnown
  <2>5. \A g \in Gates \ {"portfolio_limits", "loss_limits"} : j[g] = k[g]
    BY <1>5, SameJudgements
  <2> HIDE DEF j, k
  <2>6. \A g \in Gates \ {Replaced[f]} : j[g] = k[g]
    BY <1>6, <2>4, <2>5 DEF Replaced
  <2> QED
    BY <2>6 DEF j, k, c, d, w
<1>7. CASE f = "snapshots"
  <2>1. w.sector = world.sector
    BY <1>2, <1>7, FactAssumption
  <2>2. SectorLimit(p, w, Equity(w)) = SectorLimit(p, world, Equity(world))
    BY <1>3, <1>4, <2>1 DEF SectorLimit, Bucket, PositionAfter
  <2>3. LimitChecks(p, w, Equity(w)) = LimitChecks(p, world, Equity(world))
    BY <1>3, <1>4, <2>2 DEF LimitChecks, History, PositionAfter, CashAfter
  <2>4. c.limits = d.limits
    BY <1>3, <1>4, <2>3 DEF Build, LimitsAfter
  <2>5. j["portfolio_limits"] = k["portfolio_limits"]
    BY <2>4 DEF Judgements
  <2>6. \A g \in Gates \ {"portfolio_limits", "loss_limits"} : j[g] = k[g]
    BY <1>5, SameJudgements
  <2> HIDE DEF j, k
  <2>7. \A g \in Gates \ {Replaced[f]} : j[g] = k[g]
    BY <1>7, <2>5, <2>6 DEF Replaced
  <2> QED
    BY <2>7 DEF j, k, c, d, w
<1> QED
  BY <1>1, <1>6, <1>7

\* So what its loss approves had failed that gate, and that gate only.
LEMMA ReplacedFactLost ==
    ASSUME WorldHolds, NEW p, NEW broken, NEW f \in DOMAIN Replaced,
           Judged(p, [world EXCEPT ![f] = Unread(f)], broken),
           ~Judged(p, world, broken)
    PROVE  FailedGates(p, Build(p, world), broken) = {Replaced[f]}
<1> DEFINE c == Build(p, [world EXCEPT ![f] = Unread(f)])
           d == Build(p, world)
           j == Judgements(p, c, broken)
           k == Judgements(p, d, broken)
<1>1. \A g \in Gates \ {Replaced[f]} : j[g] = k[g]
  BY ReplacedIsReadOnce
<1>2. FailedGates(p, c, broken) = {} /\ FailedGates(p, d, broken) # {}
  BY DEF Judged, Approves
<1> HIDE DEF c, d
<1>3. /\ FailedGates(p, c, broken)
             = {g \in Gates : Status(g, p, j, broken) \in {"FAIL", "UNKNOWN"}}
      /\ FailedGates(p, d, broken)
             = {g \in Gates : Status(g, p, k, broken) \in {"FAIL", "UNKNOWN"}}
  BY DEF FailedGates
<1> HIDE DEF j, k
<1>4. \A g \in Gates \ {Replaced[f]} : Status(g, p, j, broken) = Status(g, p, k, broken)
  BY <1>1 DEF Status
<1>5. \A g \in FailedGates(p, d, broken) : g = Replaced[f]
  BY <1>2, <1>3, <1>4
<1> QED
  BY <1>2, <1>5 DEF d

LEMMA IgnoranceHelpsNot == Engine => IgnoranceNeverHelps
<1> SUFFICES ASSUME Engine, decision # None, ~decision.approved
             PROVE  LET p == decision.proposal IN
                    /\ \A f \in Losable :
                         ~Judged(p, [world EXCEPT ![f] = Unread(f)], decision.broken)
                    /\ ~IsExit(p) =>
                         ~Judged([p EXCEPT !.spread = None], world, decision.broken)
                    /\ \A f \in DOMAIN Replaced :
                         Judged(p, [world EXCEPT ![f] = Unread(f)], decision.broken)
                         => FailedGates(p, decision.context, decision.broken)
                               = {Replaced[f]}
  BY DEF IgnoranceNeverHelps
<1> DEFINE p == decision.proposal
           broken == decision.broken
<1>1. /\ p \in Proposals /\ WorldHolds /\ ~Judged(p, world, broken)
      /\ decision.context = Build(p, world)
  BY DEF Engine, DecisionHolds
<1> HIDE DEF p, broken
<1>2. ASSUME NEW f \in Losable
      PROVE  ~Judged(p, [world EXCEPT ![f] = Unread(f)], broken)
  <2>1. CASE f \in {"kill", "stock", "close", "quality", "adtv", "kind"}
    BY <1>1, <2>1, SafetyFactLost
  <2>2. CASE f \in {"report", "estimate", "others", "rest"} /\ ~IsExit(p)
    BY <1>1, <2>2, EntryFactLost
  <2>3. CASE f = "volatility" /\ ~IsExit(p)
    <3>1. Unread(f) = None
      BY <2>3 DEF Unread
    <3> QED
      BY <1>1, <2>3, <3>1, VolatilityLost
  <2>4. CASE f \in {"report", "estimate", "others", "rest", "volatility"} /\ IsExit(p)
    <3>1. f \in ResearchFacts
      BY <2>4 DEF ResearchFacts
    <3>2. Agree(Build(p, world), Build(p, [world EXCEPT ![f] = Unread(f)]))
      BY <1>1, <2>4, <3>1, ResearchIsNotRead
    <3> QED
      BY <1>1, <2>4, <3>2, ExitVerdict DEF Judged
  <2> QED
    BY <2>1, <2>2, <2>3, <2>4 DEF Losable
<1>3. ~IsExit(p) => ~Judged([p EXCEPT !.spread = None], world, broken)
  BY <1>1, QuoteLost
<1>4. ASSUME NEW f \in DOMAIN Replaced,
             Judged(p, [world EXCEPT ![f] = Unread(f)], broken)
      PROVE  FailedGates(p, decision.context, broken) = {Replaced[f]}
  BY <1>1, <1>4, ReplacedFactLost
<1> QED
  BY <1>2, <1>3, <1>4 DEF p, broken

\* Losing a fact that the context shows as unknown, one of Losable, or the quote of an
\* entry never turns a refusal into an approval, whatever the other facts and the
\* thresholds are: "FAIL and UNKNOWN both reject" (evaluate, build).  A lost sector and
\* lost snapshots, which are replaced by values, can lift only a refusal due to nothing
\* but the limits that read them.
THEOREM IgnoranceRejects == Spec => []IgnoranceNeverHelps
  BY EngineInv, IgnoranceHelpsNot, PTL

-----------------------------------------------------------------------------
(* One share less                                                           *)

LEMMA Quotient ==
    ASSUME NEW a \in Nat, NEW u \in Nat \ {0}
    PROVE  a \div u \in Nat /\ (a \div u) * u <= a /\ a < (a \div u) * u + u
  BY Z3

LEMMA SmallerQuotient ==
    ASSUME NEW a \in Nat, NEW b \in Nat, a <= b,
           NEW u \in Nat \ {0}, NEW v \in Nat \ {0}, v <= u
    PROVE  a \div u <= b \div v
<1> DEFINE x == a \div u
           y == b \div v
<1>1. x \in Nat /\ x * u <= a
  BY Quotient
<1>2. y \in Nat /\ b < y * v + v
  BY Quotient
<1> HIDE DEF x, y
<1>3. x * v <= x * u
  BY <1>1, Z3
<1>4. x * v <= b
  <2>1. x * v \in Int /\ x * u \in Int
    BY <1>1, Z3
  <2> QED
    BY <1>1, <1>3, <2>1
<1>5. ASSUME y + 1 <= x PROVE FALSE
  <2>1. (y + 1) * v <= x * v
    BY <1>1, <1>2, <1>5, Z3
  <2>2. (y + 1) * v = y * v + v
    BY <1>2, Z3
  <2>3. x * v \in Int /\ y * v \in Int /\ (y + 1) * v \in Int
    BY <1>1, <1>2, Z3
  <2> QED
    BY <1>2, <1>4, <2>1, <2>2, <2>3
<1>6. x <= y
  BY <1>1, <1>2, <1>5
<1> QED
  BY <1>6 DEF x, y

\* A trade and the same trade for fewer shares.
Reduced(q, p) ==
    /\ p \in Proposals
    /\ q.qty \in Nat \ {0} /\ q.qty <= p.qty
    /\ q.side = p.side /\ q.mode = p.mode /\ q.entry = p.entry /\ q.stop = p.stop
    /\ q.target = p.target /\ q.horizon = p.horizon /\ q.spread = p.spread

\* What the context gives the costs and the sizing.
Figures(c) ==
    /\ c.equity \in Nat \cup {None} /\ c.adtv \in Nat \cup {None}
    /\ c.volatility \in Nat \cup {None}
    /\ c.estimate # None => c.estimate.gross \in Int /\ c.estimate.profit \in 0 .. 1000

LEMMA OneShareLess ==
    ASSUME NEW p \in Proposals, p.qty > 1
    PROVE  Reduced([p EXCEPT !.qty = @ - 1], p)
<1>1. /\ p = [field \in DOMAIN p |-> p[field]] /\ p.qty \in Nat
      /\ {"side", "mode", "qty", "entry", "stop", "target", "horizon", "spread"} \subseteq DOMAIN p
  BY ProposalAssumption
<1> QED
  BY <1>1 DEF Reduced

LEMMA ReducedPlan ==
    ASSUME NEW q, NEW p, Reduced(q, p)
    PROVE  /\ IsExit(q) = IsExit(p) /\ PlanHolds(q) = PlanHolds(p) /\ Spread(q) = Spread(p)
           /\ \A c : Estimate(q, c) = Estimate(p, c) /\ Deviation(q, c) = Deviation(p, c)
  BY DEF Reduced, IsExit, PlanHolds, Spread, SpreadPaid, Estimate, Deviation

LEMMA ReducedValue ==
    ASSUME NEW q, NEW p, Reduced(q, p)
    PROVE  /\ OrderValue(q) \in Nat /\ OrderValue(p) \in Nat
           /\ OrderValue(q) <= OrderValue(p)
<1>1. p.entry \in Nat \ {0} /\ p.qty \in Nat \ {0} /\ q.entry = p.entry /\ q.qty \in Nat
      /\ q.qty <= p.qty
  BY ProposalAssumption DEF Reduced
<1>2. p.entry * q.qty <= p.entry * p.qty
  BY <1>1, Z3
<1> QED
  BY <1>1, <1>2, Z3 DEF OrderValue

\* Costs are a share of the value, and the impact's share grows with the value.
LEMMA ReducedCosts ==
    ASSUME NEW q, NEW p, Reduced(q, p), NEW c, Figures(c), CostsKnown(c)
    PROVE  /\ RoundTrip(q, c) \in Nat /\ RoundTrip(p, c) \in Nat
           /\ RoundTrip(q, c) <= RoundTrip(p, c)
<1>1. /\ Config.fixedCost \in Nat /\ Config.impact \in Nat /\ Config.financing \in Nat
      /\ Config.halfSpread \in Nat /\ Config.spread \in Nat
  BY ConfigAssumption DEF Thresholds
<1>2. p.horizon \in Nat /\ q.horizon = p.horizon /\ c.adtv \in Nat \ {0}
  BY ProposalAssumption DEF Reduced, Figures, CostsKnown
<1>3. SpreadPaid(p) \in Nat /\ SpreadPaid(q) = SpreadPaid(p)
  <2>1. p.spread \in Nat \cup {None} /\ q.spread = p.spread /\ q.side = p.side
    BY ProposalAssumption DEF Reduced
  <2> QED
    BY <1>1, <2>1 DEF SpreadPaid, Larger, IsExit
<1> DEFINE small == 2 * Config.impact * OrderValue(q)
           large == 2 * Config.impact * OrderValue(p)
           carried == Config.financing * p.horizon
<1>4. small \in Nat /\ large \in Nat /\ small <= large /\ carried \in Nat
  BY <1>1, <1>2, ReducedValue, Z3
<1>5. small \div c.adtv <= large \div c.adtv
  <2> HIDE DEF small, large
  <2>1. c.adtv <= c.adtv
    BY <1>2
  <2> QED
    BY <1>2, <1>4, <2>1, SmallerQuotient
<1>6. small \div c.adtv \in Nat /\ large \div c.adtv \in Nat /\ carried \div 252 \in Nat
  <2> HIDE DEF small, large, carried
  <2> QED
    BY <1>2, <1>4, Quotient
<1>7. /\ RoundTrip(q, c) = Config.fixedCost + SpreadPaid(p) + small \div c.adtv + carried \div 252
      /\ RoundTrip(p, c) = Config.fixedCost + SpreadPaid(p) + large \div c.adtv + carried \div 252
  BY <1>2, <1>3 DEF RoundTrip
<1> HIDE DEF small, large, carried
<1> QED
  BY <1>1, <1>3, <1>5, <1>6, <1>7

LEMMA ReducedReturn ==
    ASSUME NEW q, NEW p, Reduced(q, p), NEW c, Figures(c), CostsKnown(c),
           Estimate(p, c) # None
    PROVE  /\ NetReturn(q, c) \in Int /\ NetReturn(p, c) \in Int
           /\ NetReturn(q, c) >= NetReturn(p, c)
<1>1. Estimate(q, c) = Estimate(p, c) /\ Estimate(p, c).gross \in Int
  BY ReducedPlan DEF Estimate, Figures
<1> QED
  BY <1>1, ReducedCosts DEF NetReturn

\* The plan's reward grows and its risk shrinks.
LEMMA ReducedRisk ==
    ASSUME NEW q, NEW p, Reduced(q, p), NEW c, Figures(c), CostsKnown(c), PlanHolds(p)
    PROVE  /\ Reward(q, c) \in Int /\ Reward(p, c) \in Int /\ Reward(q, c) >= Reward(p, c)
           /\ Risk(q, c) \in Nat /\ Risk(p, c) \in Nat /\ Risk(q, c) <= Risk(p, c)
<1>1. /\ p.entry \in Nat /\ p.stop \in Nat /\ p.target \in Nat /\ p.stop < p.entry
      /\ q.entry = p.entry /\ q.stop = p.stop /\ q.target = p.target
  BY ProposalAssumption DEF Reduced, PlanHolds
<1> DEFINE small == RoundTrip(q, c) * p.entry
           large == RoundTrip(p, c) * p.entry
<1>2. small \in Nat /\ large \in Nat /\ small <= large
  BY <1>1, ReducedCosts, Z3
<1>3. /\ Reward(q, c) = 1000 * (p.target - p.entry) - small
      /\ Reward(p, c) = 1000 * (p.target - p.entry) - large
      /\ Risk(q, c) = 1000 * (p.entry - p.stop) + small
      /\ Risk(p, c) = 1000 * (p.entry - p.stop) + large
  BY <1>1 DEF Reward, Risk
<1> HIDE DEF small, large
<1> QED
  BY <1>1, <1>2, <1>3

\* A gate's result that rejects nothing.
Fine(status) == status \notin {"FAIL", "UNKNOWN"}

LEMMA ReducedKelly ==
    ASSUME NEW q, NEW p, Reduced(q, p), NEW c, Figures(c), c.equity \in Nat,
           NEW broken, KellyKnown(p, c, broken)
    PROVE  /\ KellyKnown(q, c, broken)
           /\ SharesForKelly(q, c) \in Nat /\ SharesForKelly(p, c) \in Nat
           /\ SharesForKelly(p, c) <= SharesForKelly(q, c)
<1> DEFINE profit == Estimate(p, c).profit
           lossP == (1000 - profit) * Risk(p, c)
           lossQ == (1000 - profit) * Risk(q, c)
           stake == c.equity * Config.kelly
           winP == Larger(0, profit - lossP \div Reward(p, c))
           winQ == Larger(0, profit - lossQ \div Reward(q, c))
           unit == 1000000 * p.entry
<1>1. /\ Estimate(p, c) # None /\ CostsKnown(c) /\ PlanHolds(p) /\ Reward(p, c) > 0
      /\ "reward_risk" \notin broken
  BY DEF KellyKnown
<1>2. profit \in 0 .. 1000 /\ Estimate(q, c) = Estimate(p, c)
  BY <1>1, ReducedPlan DEF Estimate, Figures
<1>3. /\ Reward(q, c) \in Nat \ {0} /\ Reward(p, c) \in Nat \ {0}
      /\ Reward(p, c) <= Reward(q, c)
      /\ Risk(q, c) \in Nat /\ Risk(p, c) \in Nat /\ Risk(q, c) <= Risk(p, c)
  BY <1>1, ReducedRisk
<1>4. lossQ \in Nat /\ lossP \in Nat /\ lossQ <= lossP
  <2> HIDE DEF profit
  <2>1. 1000 - profit \in Nat
    BY <1>2
  <2> QED
    BY <1>3, <2>1, Z3
<1>5. lossQ \div Reward(q, c) <= lossP \div Reward(p, c)
  <2> HIDE DEF lossP, lossQ
  <2> QED
    BY <1>3, <1>4, SmallerQuotient
<1>6. lossQ \div Reward(q, c) \in Nat /\ lossP \div Reward(p, c) \in Nat
  <2> HIDE DEF lossP, lossQ
  <2> QED
    BY <1>3, <1>4, Quotient
<1>7. winP \in Nat /\ winQ \in Nat /\ winP <= winQ
  <2> HIDE DEF lossP, lossQ, profit
  <2> QED
    BY <1>2, <1>5, <1>6 DEF Larger
<1>8. winP = KellyFraction(p, c) /\ winQ = KellyFraction(q, c)
  BY <1>2 DEF KellyFraction
<1>9. stake \in Nat /\ unit \in Nat \ {0} /\ q.entry = p.entry
  BY ConfigAssumption, ProposalAssumption, Z3 DEF Thresholds, Reduced
<1>10. /\ SharesForKelly(p, c) = (stake * winP) \div unit
       /\ SharesForKelly(q, c) = (stake * winQ) \div unit
  <2> HIDE DEF winP, winQ
  <2> QED
    BY <1>8, <1>9 DEF SharesForKelly
<1>11. KellyKnown(q, c, broken)
  BY <1>1, <1>2, <1>3, ReducedPlan DEF KellyKnown
<1> HIDE DEF profit, lossP, lossQ, winP, winQ, stake, unit
<1>12. stake * winP \in Nat /\ stake * winQ \in Nat /\ stake * winP <= stake * winQ
  BY <1>7, <1>9, Z3
<1>13. unit <= unit
  BY <1>9
<1>14. (stake * winP) \div unit <= (stake * winQ) \div unit
  BY <1>9, <1>12, <1>13, SmallerQuotient
<1>15. (stake * winP) \div unit \in Nat /\ (stake * winQ) \div unit \in Nat
  BY <1>9, <1>12, Quotient
<1> QED
  BY <1>10, <1>11, <1>14, <1>15

\* Every cap on the number of shares is at least as large for fewer shares.
LEMMA ReducedSizing ==
    ASSUME NEW q, NEW p, Reduced(q, p), NEW c, Figures(c), NEW broken,
           Fine(PositionSizing(p, c, broken))
    PROVE  Fine(PositionSizing(q, c, broken))
<1>1. /\ p.entry \in Nat \ {0} /\ p.qty \in Nat /\ p.stop \in (Nat \ {0}) \cup {None}
      /\ q.entry = p.entry /\ q.stop = p.stop /\ q.qty \in Nat /\ q.qty <= p.qty
  BY ProposalAssumption DEF Reduced
<1>2. c.equity \in Nat \ {0} /\ p.stop \in Nat /\ p.stop < p.entry
  BY <1>1 DEF PositionSizing, Fine, Figures
<1> DEFINE cap == Smaller(SharesForRisk(p, c), SharesForValue(p, c))
           byVolatility == SharesForVolatility(p, c)
<1>3. cap = Smaller(SharesForRisk(q, c), SharesForValue(q, c))
  BY <1>1 DEF SharesForRisk, SharesForValue
<1>4. byVolatility = SharesForVolatility(q, c)
  BY <1>1 DEF SharesForVolatility
<1>5. cap \in Nat
  <2> DEFINE risked == c.equity * Config.risk
             valued == c.equity * Config.orderValue
  <2>1. /\ risked \in Nat /\ valued \in Nat
        /\ 1000 * (p.entry - p.stop) \in Nat \ {0} /\ 1000 * p.entry \in Nat \ {0}
    BY <1>1, <1>2, ConfigAssumption, Z3 DEF Thresholds
  <2>2. SharesForRisk(p, c) \in Nat /\ SharesForValue(p, c) \in Nat
    <3>1. /\ SharesForRisk(p, c) = risked \div (1000 * (p.entry - p.stop))
          /\ SharesForValue(p, c) = valued \div (1000 * p.entry)
      BY DEF SharesForRisk, SharesForValue
    <3> HIDE DEF risked, valued
    <3> QED
      BY <2>1, <3>1, Quotient
  <2> QED
    BY <2>2 DEF Smaller
<1>6. c.volatility \in Nat \ {0} => byVolatility \in Nat
  <2> SUFFICES ASSUME c.volatility \in Nat \ {0} PROVE byVolatility \in Nat
    OBVIOUS
  <2> DEFINE budget == c.equity * Config.volatility
             value == Smaller(c.equity, budget \div c.volatility)
  <2>1. budget \in Nat
    BY <1>2, ConfigAssumption, Z3 DEF Thresholds
  <2>2. budget \div c.volatility \in Nat
    <3> HIDE DEF budget
    <3> QED
      BY <2>1, Quotient
  <2>3. value \in Nat
    <3> HIDE DEF budget
    <3> QED
      BY <1>2, <2>2 DEF Smaller
  <2>4. byVolatility = value \div p.entry
    BY DEF SharesForVolatility
  <2> HIDE DEF value
  <2> QED
    BY <1>1, <2>3, <2>4, Quotient
<1> HIDE DEF cap, byVolatility
<1>7. CASE c.sizing = "volatility_target"
  <2>1. c.volatility \in Nat \ {0} /\ p.qty <= cap /\ p.qty <= byVolatility
    BY <1>2, <1>7 DEF PositionSizing, Fine, PassIf, Figures, cap, byVolatility
  <2>2. q.qty <= cap /\ q.qty <= byVolatility
    BY <1>1, <1>5, <1>6, <2>1
  <2> QED
    BY <1>1, <1>2, <1>3, <1>4, <1>7, <2>1, <2>2, NoneAssumption
       DEF PositionSizing, Fine, PassIf
<1>8. CASE c.sizing = "fractional_kelly"
  <2>1. KellyKnown(p, c, broken) /\ p.qty <= cap /\ p.qty <= SharesForKelly(p, c)
    BY <1>2, <1>8 DEF PositionSizing, Fine, PassIf, cap
  <2>2. KellyKnown(q, c, broken) /\ q.qty <= SharesForKelly(q, c) /\ q.qty <= cap
    <3>1. /\ KellyKnown(q, c, broken)
          /\ SharesForKelly(q, c) \in Nat /\ SharesForKelly(p, c) \in Nat
          /\ SharesForKelly(p, c) <= SharesForKelly(q, c)
      BY <1>2, <2>1, ReducedKelly
    <3> QED
      BY <1>1, <1>5, <2>1, <3>1
  <2> QED
    BY <1>1, <1>2, <1>3, <1>8, <2>2, NoneAssumption DEF PositionSizing, Fine, PassIf
<1>9. CASE c.sizing \notin {"volatility_target", "fractional_kelly"}
  <2>1. p.qty <= cap
    BY <1>2, <1>9 DEF PositionSizing, Fine, PassIf, cap
  <2>2. q.qty <= cap
    BY <1>1, <1>5, <2>1
  <2> QED
    BY <1>1, <1>2, <1>3, <1>9, <2>2, NoneAssumption DEF PositionSizing, Fine, PassIf
<1> QED
  BY <1>7, <1>8, <1>9

\* The gates that read the quantity, for contexts that give the same figures.
LEMMA ReducedGates ==
    ASSUME NEW q, NEW p, Reduced(q, p), NEW c, Figures(c), NEW broken,
           c.held \in Nat
    PROVE  /\ Fine(Instrument(p, c)) => Fine(Instrument(q, c))
           /\ Fine(Participation(p, c)) => Fine(Participation(q, c))
           /\ Fine(ExpectedNet(p, c)) => Fine(ExpectedNet(q, c))
           /\ Fine(Edge(p, c, broken)) => Fine(Edge(q, c, broken))
           /\ Fine(RewardRisk(p, c)) => Fine(RewardRisk(q, c))
<1>1. /\ p.qty \in Nat /\ q.qty \in Nat /\ q.qty <= p.qty /\ p.horizon \in Nat
      /\ q.horizon = p.horizon
  BY ProposalAssumption DEF Reduced
<1>2. /\ Config.participation \in Nat /\ Config.net \in Nat /\ Config.benchmark \in Nat
      /\ Config.edge \in Nat /\ Config.rewardRisk \in Nat
  BY ConfigAssumption DEF Thresholds
<1>3. Fine(Instrument(p, c)) => Fine(Instrument(q, c))
  BY <1>1, ReducedPlan DEF Instrument, Fine, PassIf
<1>4. Fine(Participation(p, c)) => Fine(Participation(q, c))
  <2> SUFFICES ASSUME CostsKnown(c), 1000 * OrderValue(p) <= Config.participation * c.adtv
               PROVE  1000 * OrderValue(q) <= Config.participation * c.adtv
    BY DEF Participation, Fine, PassIf
  <2>1. c.adtv \in Nat
    BY DEF CostsKnown, Figures
  <2>2. Config.participation * c.adtv \in Nat
    BY <1>2, <2>1, Z3
  <2> QED
    BY <2>2, ReducedValue
<1>5. Fine(ExpectedNet(p, c)) => Fine(ExpectedNet(q, c))
  <2> SUFFICES ASSUME CostsKnown(c), Estimate(p, c) # None, NetReturn(p, c) >= Config.net
               PROVE  Estimate(q, c) # None /\ NetReturn(q, c) >= Config.net
    BY DEF ExpectedNet, Fine, PassIf
  <2> QED
    BY <1>2, ReducedReturn, ReducedPlan
<1>6. Fine(Edge(p, c, broken)) => Fine(Edge(q, c, broken))
  <2> DEFINE hurdle == (Config.benchmark * p.horizon) \div 252
  <2> SUFFICES ASSUME NetKnown(p, c, broken), NetReturn(p, c) - hurdle >= Config.edge
               PROVE  NetKnown(q, c, broken) /\ NetReturn(q, c) - hurdle >= Config.edge
    BY <1>1 DEF Edge, Fine, PassIf
  <2>1. Estimate(p, c) # None /\ CostsKnown(c) /\ "expected_net_return" \notin broken
    BY DEF NetKnown
  <2>2. hurdle \in Nat
    <3> DEFINE a == Config.benchmark * p.horizon
    <3>1. a \in Nat
      BY <1>1, <1>2, Z3
    <3> HIDE DEF a
    <3>2. a \div 252 \in Nat
      BY <3>1, Quotient
    <3> QED
      BY <3>2 DEF a
  <2> HIDE DEF hurdle
  <2> QED
    BY <1>2, <2>1, <2>2, ReducedReturn, ReducedPlan DEF NetKnown
<1>7. Fine(RewardRisk(p, c)) => Fine(RewardRisk(q, c))
  <2> SUFFICES ASSUME PlanHolds(p), CostsKnown(c),
                      10 * Reward(p, c) >= Config.rewardRisk * Risk(p, c)
               PROVE  PlanHolds(q) /\ 10 * Reward(q, c) >= Config.rewardRisk * Risk(q, c)
    BY DEF RewardRisk, Fine, PassIf
  <2>1. /\ Reward(q, c) \in Int /\ Reward(p, c) \in Int /\ Reward(q, c) >= Reward(p, c)
        /\ Risk(q, c) \in Nat /\ Risk(p, c) \in Nat /\ Risk(q, c) <= Risk(p, c)
    BY ReducedRisk
  <2>2. /\ Config.rewardRisk * Risk(q, c) \in Nat /\ Config.rewardRisk * Risk(p, c) \in Nat
        /\ Config.rewardRisk * Risk(q, c) <= Config.rewardRisk * Risk(p, c)
    BY <1>2, <2>1, Z3
  <2> QED
    BY <2>1, <2>2, ReducedPlan
<1> QED
  BY <1>3, <1>4, <1>5, <1>6, <1>7

\* What a gate says of fewer shares, in one context.
LEMMA ReducedJudgements ==
    ASSUME NEW q, NEW p, Reduced(q, p), NEW c, Figures(c), c.held \in Nat, NEW broken
    PROVE  \A g \in Gates :
              Fine(Judgements(p, c, broken)[g]) => Fine(Judgements(q, c, broken)[g])
<1> DEFINE j == Judgements(p, c, broken)
           k == Judgements(q, c, broken)
<1>1. /\ q.mode = p.mode /\ q.horizon = p.horizon /\ q.entry = p.entry
      /\ IsExit(q) = IsExit(p) /\ PlanHolds(q) = PlanHolds(p) /\ Spread(q) = Spread(p)
      /\ Estimate(q, c) = Estimate(p, c) /\ Deviation(q, c) = Deviation(p, c)
  BY ReducedPlan DEF Reduced
<1>2. /\ k.kill_switch = j.kill_switch /\ k.execution_mode = j.execution_mode
      /\ k.portfolio_match = j.portfolio_match
  BY <1>1 DEF Judgements, ExecutionMode
<1>3. /\ k.data_licensed = j.data_licensed /\ k.data_freshness = j.data_freshness
      /\ k.data_quality = j.data_quality /\ k.entry_deviation = j.entry_deviation
  BY <1>1 DEF Judgements, DataLicensed
<1>4. /\ k.research_report = j.research_report /\ k.research_stance = j.research_stance
      /\ k.agent_conflicts = j.agent_conflicts /\ k.loss_limits = j.loss_limits
      /\ k.liquidity = j.liquidity /\ k.portfolio_limits = j.portfolio_limits
  BY DEF Judgements
<1>5. /\ k.model_calibration = j.model_calibration /\ k.out_of_sample = j.out_of_sample
      /\ k.probability_of_profit = j.probability_of_profit
      /\ k.trade_plan = j.trade_plan /\ k.spread = j.spread
  BY <1>1 DEF Judgements
<1>6. /\ j.instrument = Instrument(p, c) /\ k.instrument = Instrument(q, c)
      /\ j.participation = Participation(p, c) /\ k.participation = Participation(q, c)
      /\ j.expected_net_return = ExpectedNet(p, c)
      /\ k.expected_net_return = ExpectedNet(q, c)
      /\ j.edge_vs_benchmark = Edge(p, c, broken) /\ k.edge_vs_benchmark = Edge(q, c, broken)
      /\ j.reward_risk = RewardRisk(p, c) /\ k.reward_risk = RewardRisk(q, c)
      /\ j.position_sizing = PositionSizing(p, c, broken)
      /\ k.position_sizing = PositionSizing(q, c, broken)
  BY DEF Judgements
<1> HIDE DEF j, k
<1>7. /\ Fine(j.instrument) => Fine(k.instrument)
      /\ Fine(j.participation) => Fine(k.participation)
      /\ Fine(j.expected_net_return) => Fine(k.expected_net_return)
      /\ Fine(j.edge_vs_benchmark) => Fine(k.edge_vs_benchmark)
      /\ Fine(j.reward_risk) => Fine(k.reward_risk)
      /\ Fine(j.position_sizing) => Fine(k.position_sizing)
  BY <1>6, ReducedGates, ReducedSizing
<1>8. \A g \in Gates : Fine(j[g]) => Fine(k[g])
  BY <1>2, <1>3, <1>4, <1>5, <1>7 DEF Gates, ExitGates, EntryGates
<1> QED
  BY <1>8 DEF j, k

LEMMA ReducedLimits ==
    ASSUME WorldHolds, NEW q, NEW p, Reduced(q, p), NEW equity \in Nat,
           world.others \in Nat, Fine(LimitsAfter(p, world, equity))
    PROVE  Fine(LimitsAfter(q, world, equity))
<1>1. LimitChecks(p, world, equity) \cap {"FAIL", "UNKNOWN"} = {}
  BY DEF LimitsAfter, Fine
<1>2. History(world, "close") # None
  BY <1>1 DEF LimitChecks
<1>3. /\ world.cash \in Nat /\ world.held \in Nat /\ world.close \in Nat
      /\ Config.weight \in Nat /\ Config.gross \in Nat
  BY <1>2, FactAssumption, ConfigAssumption DEF History, WorldHolds, Thresholds
<1>4. /\ 1000 * PositionAfter(p, world) <= Config.weight * equity
      /\ 1000 * (PositionAfter(p, world) + world.others) <= Config.gross * equity
      /\ CashAfter(p, world) >= 0 /\ world.rest \notin {"FAIL", "UNKNOWN"}
      /\ SectorLimit(p, world, equity) \notin {"FAIL", "UNKNOWN"}
      /\ PassIfKnown(History(world, "adtv"), world.adtv >= Config.adtv)
            \notin {"FAIL", "UNKNOWN"}
  <2> DEFINE known == PassIfKnown(History(world, "adtv"), world.adtv >= Config.adtv)
  <2>1. known \in LimitChecks(p, world, equity)
    BY DEF LimitChecks
  <2>2. known \notin {"FAIL", "UNKNOWN"}
    <3> HIDE DEF known
    <3> QED
      BY <1>1, <2>1
  <2> HIDE DEF known
  <2>3. /\ 1000 * PositionAfter(p, world) <= Config.weight * equity
        /\ 1000 * (PositionAfter(p, world) + world.others) <= Config.gross * equity
        /\ CashAfter(p, world) >= 0 /\ world.rest \notin {"FAIL", "UNKNOWN"}
        /\ SectorLimit(p, world, equity) \notin {"FAIL", "UNKNOWN"}
    <3> DEFINE weight == 1000 * PositionAfter(p, world) <= Config.weight * equity
               gross == 1000 * (PositionAfter(p, world) + world.others) <= Config.gross * equity
               cash == CashAfter(p, world) >= 0
    <3>1. {PassIf(weight), PassIf(gross), PassIf(cash), SectorLimit(p, world, equity),
           world.rest} \subseteq LimitChecks(p, world, equity)
      BY <1>2 DEF LimitChecks
    <3> HIDE DEF weight, gross, cash
    <3>2. PassIf(weight) # "FAIL" /\ PassIf(gross) # "FAIL" /\ PassIf(cash) # "FAIL"
      BY <1>1, <3>1
    <3>3. weight /\ gross /\ cash
      BY <3>2 DEF PassIf
    <3> QED
      BY <1>1, <3>1, <3>3 DEF weight, gross, cash
  <2> QED
    BY <2>2, <2>3 DEF known
<1>5. /\ PositionAfter(q, world) \in Nat /\ PositionAfter(p, world) \in Nat
      /\ PositionAfter(q, world) <= PositionAfter(p, world)
  <2>1. p.qty \in Nat /\ q.qty \in Nat /\ q.qty <= p.qty
    BY ProposalAssumption DEF Reduced
  <2>2. (world.held + q.qty) * world.close <= (world.held + p.qty) * world.close
    BY <1>3, <2>1, Z3
  <2> QED
    BY <1>3, <2>1, <2>2, Z3 DEF PositionAfter
<1>6. Config.weight * equity \in Nat /\ Config.gross * equity \in Nat
  BY <1>3, Z3
<1>7. /\ 1000 * PositionAfter(q, world) <= Config.weight * equity
      /\ 1000 * (PositionAfter(q, world) + world.others) <= Config.gross * equity
      /\ CashAfter(q, world) >= 0
  BY <1>3, <1>4, <1>5, <1>6, ReducedValue DEF CashAfter
<1>8. SectorLimit(q, world, equity) \notin {"FAIL", "UNKNOWN"}
  <2>1. /\ world.peers \in Nat /\ world.unclassified \in Nat
        /\ Config.sector * equity \in Nat
    BY FactAssumption, ConfigAssumption, Z3 DEF WorldHolds, Thresholds
  <2>2. /\ Bucket(q, world) \in Nat /\ Bucket(p, world) \in Nat
        /\ Bucket(q, world) <= Bucket(p, world)
    BY <1>5, <2>1 DEF Bucket
  <2>3. TooHeavy(Bucket(q, world), equity) => TooHeavy(Bucket(p, world), equity)
    BY <2>1, <2>2 DEF TooHeavy
  <2> QED
    BY <1>4, <2>3 DEF SectorLimit
<1>9. LimitChecks(q, world, equity) \cap {"FAIL", "UNKNOWN"} = {}
  BY <1>2, <1>4, <1>7, <1>8 DEF LimitChecks, PassIf
<1> QED
  BY <1>9 DEF LimitsAfter, Fine

\* The two contexts, and their limits.
LEMMA ReducedContext ==
    ASSUME WorldHolds, NEW q, NEW p, Reduced(q, p)
    PROVE  LET c == Build(p, world)
               d == Build(q, world)
           IN  /\ SameCase(c, d) /\ c.losses = d.losses /\ Figures(d) /\ d.held \in Nat
               /\ c.limits # None /\ Fine(c.limits) => d.limits # None /\ Fine(d.limits)
<1> DEFINE c == Build(p, world)
           d == Build(q, world)
<1>1. SameCase(c, d) /\ c.losses = d.losses
  BY DEF Build, SameCase
<1>2. /\ world.held \in Nat /\ world.adtv \in Nat \cup {None}
      /\ world.volatility \in Nat \cup {None} /\ world.others \in Nat \cup {None}
      /\ world.estimate # None =>
            world.estimate.gross \in Int /\ world.estimate.profit \in 0 .. 1000
  BY FactAssumption DEF WorldHolds
<1>3. /\ d.equity = Equity(world) /\ d.adtv = History(world, "adtv")
      /\ d.volatility = History(world, "volatility")
      /\ d.estimate = IF world.stock = None THEN None ELSE world.estimate
      /\ d.held = IF world.kind = None \/ world.stock = None THEN 0 ELSE world.held
  BY DEF Build
<1>4. Equity(world) \in Nat \cup {None}
  BY EquityIsNat
<1>5. c.limits = IF \/ world.stock = None \/ IsExit(p)
                    \/ Equity(world) = None \/ Equity(world) = 0
                 THEN None ELSE LimitsAfter(p, world, Equity(world))
  BY DEF Build
<1>6. d.limits = IF \/ world.stock = None \/ IsExit(p)
                    \/ Equity(world) = None \/ Equity(world) = 0
                 THEN None ELSE LimitsAfter(q, world, Equity(world))
  BY ReducedPlan DEF Build
<1> HIDE DEF c, d
<1>7. Figures(d) /\ d.held \in Nat
  BY <1>2, <1>3, <1>4 DEF Figures, History
<1>8. ASSUME c.limits # None, Fine(c.limits)
      PROVE  d.limits # None /\ Fine(d.limits)
  <2>1. /\ Equity(world) \in Nat /\ Fine(LimitsAfter(p, world, Equity(world)))
        /\ d.limits = LimitsAfter(q, world, Equity(world))
    BY <1>4, <1>5, <1>6, <1>8
  <2>2. world.others \in Nat
    BY <1>2, <1>5, <1>8 DEF Equity
  <2>3. Fine(LimitsAfter(q, world, Equity(world)))
    BY <2>1, <2>2, ReducedLimits
  <2>4. LimitsAfter(q, world, Equity(world)) = "PASS"
    BY <2>3 DEF LimitsAfter, Fine
  <2>5. LimitsAfter(q, world, Equity(world)) # None
    BY <1>5, <1>8, <2>3, <2>4 DEF LimitsAfter, Fine
  <2> QED
    BY <2>1, <2>3, <2>5
<1> QED
  BY <1>1, <1>7, <1>8 DEF c, d

LEMMA SmallerPasses == Engine => SmallerIsSafer
<1> SUFFICES ASSUME Engine, decision # None, decision.approved, decision.proposal.qty > 1
             PROVE  Judged([decision.proposal EXCEPT !.qty = @ - 1], world, decision.broken)
  BY DEF SmallerIsSafer
<1> DEFINE p == decision.proposal
           broken == decision.broken
           q == [p EXCEPT !.qty = @ - 1]
           c == Build(p, world)
           d == Build(q, world)
<1>1. p \in Proposals /\ WorldHolds /\ Approves(p, c, broken)
  BY DEF Engine, DecisionHolds, Judged
<1>2. Reduced(q, p)
  BY <1>1, OneShareLess
<1> HIDE DEF p, broken, q
<1>3. /\ SameCase(c, d) /\ c.losses = d.losses /\ Figures(d) /\ d.held \in Nat
      /\ c.limits # None /\ Fine(c.limits) => d.limits # None /\ Fine(d.limits)
  BY <1>1, <1>2, ReducedContext
<1> HIDE DEF c, d
<1>4. ASSUME NEW g \in Gates, Applies(g, q)
      PROVE  g \notin broken /\ Fine(Judgements(q, d, broken)[g])
  <2>1. Applies(g, p)
    BY <1>2, <1>4, ReducedPlan DEF Applies
  <2>2. g \notin broken /\ Fine(Judgements(p, c, broken)[g])
    BY <1>1, <2>1, ApprovedPasses DEF Fine
  <2>3. CASE g = "portfolio_limits"
    <3>1. Judgements(p, c, broken).portfolio_limits
             = IF c.limits = None THEN "UNKNOWN" ELSE c.limits
      BY DEF Judgements
    <3>2. Judgements(q, d, broken).portfolio_limits
             = IF d.limits = None THEN "UNKNOWN" ELSE d.limits
      BY DEF Judgements
    <3> QED
      BY <1>3, <2>2, <2>3, <3>1, <3>2 DEF Fine
  <2>4. CASE g # "portfolio_limits"
    <3>1. Judgements(p, c, broken).loss_limits = PassIfKnown(c.losses, c.losses = "within")
          /\ Judgements(p, d, broken).loss_limits = PassIfKnown(d.losses, d.losses = "within")
      BY DEF Judgements
    <3>2. Judgements(p, c, broken)[g] = Judgements(p, d, broken)[g]
      BY <1>3, <2>4, <3>1, SameJudgements
    <3>3. Fine(Judgements(p, d, broken)[g])
      BY <2>2, <3>2
    <3> QED
      BY <1>2, <1>3, <2>2, <3>3, ReducedJudgements
  <2> QED
    BY <2>3, <2>4
<1> DEFINE k == Judgements(q, d, broken)
<1>5. \A g \in Gates : Status(g, q, k, broken) \notin {"FAIL", "UNKNOWN"}
  <2> HIDE DEF k
  <2>1. \A g \in Gates : Applies(g, q) => g \notin broken /\ Fine(k[g])
    BY <1>4 DEF k
  <2> QED
    BY <2>1 DEF Status, Fine
<1>6. Approves(q, d, broken)
  <2>1. FailedGates(q, d, broken) = {g \in Gates : Status(g, q, k, broken) \in {"FAIL", "UNKNOWN"}}
    BY DEF FailedGates
  <2> QED
    BY <1>5, <2>1 DEF Approves
<1> QED
  BY <1>6 DEF Judged, p, q, broken, d

\* What is approved is approved for one share less, for any thresholds and facts:
\* costs, participation, every sizing rule and every limit grow with the quantity
\* (costs.round_trip, position_sizing, portfolio_limits).
THEOREM FewerSharesPass == Spec => []SmallerIsSafer
  BY EngineInv, SmallerPasses, PTL
=============================================================================
