-------------------------------- MODULE Analyst --------------------------------
(***************************************************************************)
(* One agent and one stock over time: the facts that the agent reads change *)
(* (a new session, a filing, a headline, a correction), it is run again,    *)
(* and its output is recorded (agents/*/agent.py run_and_record).  Whatever *)
(* raises under the agent makes it report a failure.                        *)
(***************************************************************************)
EXTENDS AgentScores

CONSTANTS Usual,    \* agent |-> the facts of an ordinary stock
          Unusual,  \* agent |-> fact |-> what else it may be
          MaxOdd    \* how many facts are unusual at a time

VARIABLES agent,    \* the agent under study
          seen,     \* the facts it reads
          out,      \* the output it recorded last
          raised    \* whether something the last run called raised an exception

agentVars == <<agent, seen, out, raised>>

Analysts == DOMAIN Usual

Maybe(T) == T \cup {None}

\* A headline that is read is recent enough to weigh something.
Headlines == {h \in [age : Nat, event : STRING, sentiment : Maybe(-100 .. 100), label : -1 .. 1,
                      early : BOOLEAN, importance : 1 .. 100] : Weight(h) \in Positive}
Changed == UNION {DOMAIN Rules.macro.sensitivities[s] : s \in DOMAIN Rules.macro.sensitivities}
Limits == DOMAIN Usual["portfolio"].limits
Verdicts == {"PASS", "FAIL", "UNKNOWN"}

\* What each agent reads.
FactTypes ==
    [risk |-> [sessions |-> Nat, usable |-> BOOLEAN, quality |-> 0 .. 100, volatility |-> Nat,
               recent |-> Maybe(Nat), drawdown |-> Nat, beta |-> Maybe(Int), sharpe |-> Maybe(Int),
               adtv |-> Maybe(Int)],
     technical |-> [bars |-> Nat, usable |-> BOOLEAN, quality |-> 0 .. 100, fresh |-> BOOLEAN,
                    gap |-> Maybe(Int), alignment |-> Maybe(Int), cross |-> Maybe(Int),
                    adx |-> Maybe(Int), di |-> Int, macd |-> Maybe(Int), macdCross |-> Maybe(Int),
                    rsi |-> Maybe(Int), roc |-> Maybe(Int), percentB |-> Maybe(Int),
                    highDivergence |-> BOOLEAN, lowDivergence |-> BOOLEAN, range |-> Maybe(Int),
                    volume |-> Int, squeeze |-> BOOLEAN, expansion |-> Int, month |-> Int,
                    balance |-> Int, close |-> Int, support |-> Maybe(Int),
                    resistance |-> Maybe(Int), average |-> Maybe(Int), atr |-> Maybe(Int)],
     fundamental |-> [periods |-> Nat, licensed |-> BOOLEAN, lender |-> BOOLEAN, growth |-> Maybe(Int),
                      before |-> Maybe(Int), eps |-> Maybe(Int), margin |-> Maybe(Int),
                      marginBefore |-> Maybe(Int), roe |-> Maybe(Int), roce |-> Maybe(Int),
                      debt |-> Maybe(Int), coverage |-> Maybe(Int), conversion |-> Maybe(Int),
                      operating |-> Maybe(Int), pe |-> Maybe(Positive), peerPe |-> Maybe(Positive)],
     valuation |-> [periods |-> Nat, price |-> Maybe(Positive), lender |-> BOOLEAN,
                    complete |-> BOOLEAN, revenues |-> Seq(Int), margins |-> Seq(Int),
                    debt |-> Nat, cash |-> Nat, shares |-> Nat, beta |-> Maybe(Int),
                    interest |-> Nat, tax |-> 0 .. 100, peers |-> [{"pe", "pb"} -> Maybe(Int)]],
     news |-> [installed |-> BOOLEAN, items |-> {S \in SUBSET Headlines : IsFiniteSet(S)}],
     macro |-> [sector |-> DOMAIN Rules.macro.sensitivities, regime |-> STRING,
                change |-> [Changed -> Maybe(Int)]],
     portfolio |-> [price |-> Maybe(Nat), correlation |-> Maybe(Int), volatility |-> Maybe(Int),
                    room |-> Maybe(Int),
                    limits |-> [Limits -> [before : Verdicts, after : Verdicts, offends : BOOLEAN]]]]

Typed(a, facts) == /\ DOMAIN facts = DOMAIN FactTypes[a]
                   /\ \A f \in DOMAIN facts : facts[f] \in FactTypes[a][f]

FactsHold ==
    /\ None \notin Int /\ IsFiniteSet(Limits) /\ Analysts \subseteq DOMAIN FactTypes
    /\ \A a \in Analysts :
         /\ Typed(a, Usual[a]) /\ DOMAIN Unusual[a] \subseteq DOMAIN Usual[a]
         /\ \A f \in DOMAIN Unusual[a] : Unusual[a][f] \subseteq FactTypes[a][f]

ASSUME FactsAssumption == FactsHold

Output(a, facts) == CASE a = "technical" -> Technical(facts)
                      [] a = "fundamental" -> Fundamental(facts)
                      [] a = "valuation" -> Valuation(facts)
                      [] a = "risk" -> Risk(facts)
                      [] a = "news" -> News(facts)
                      [] a = "macro" -> Macro(facts)
                      [] a = "portfolio" -> PortfolioFit(facts)

Odd(facts) == {f \in DOMAIN facts : facts[f] # Usual[agent][f]}

AgentInit == /\ agent \in Analysts
             /\ seen = Usual[agent]
             /\ out = Output(agent, seen)
             /\ raised = FALSE

\* A fact changes and the agent is run on it.
Observe(f, value) ==
    /\ seen' = [seen EXCEPT ![f] = value]
    /\ Cardinality(Odd(seen')) <= MaxOdd
    /\ out' = Output(agent, seen')
    /\ raised' = FALSE
    /\ UNCHANGED agent

\* The agent is run again and something it calls raises.
Break == /\ out' = NotOk("failed")
         /\ raised' = TRUE
         /\ UNCHANGED <<agent, seen>>

AgentNext == \/ \E f \in DOMAIN Unusual[agent] :
                   \E value \in {Usual[agent][f]} \cup Unusual[agent][f] : Observe(f, value)
             \/ Break

AgentSpec == AgentInit /\ [][AgentNext]_agentVars

-----------------------------------------------------------------------------
\* A level is printed at, or beyond, the close it lies short of.
PrintsOntoClose ==
    /\ agent = "technical" /\ seen.bars >= Rules.technical.minHistory
    /\ ~LevelsHold(seen, Composite(TechnicalSignals(seen), Rules.technical.weights).tilt)

\* The rules ask for one annual period only, and there is no second one to read.
LacksPriorYear ==
    /\ agent = "fundamental"
    /\ Rules.fundamental.minPeriods = 1 /\ seen.periods = 1

\* An agent reports a failure only when something under it raised: the numbers it
\* computes itself always meet the contract of its output.  There are two exceptions.
\* The technical agent compares levels rounded to the paisa with the unrounded close
\* and so refuses its own result; the fundamental agent reads the row before the last
\* also where the rules let it run on a single one.
OnlyBreakageFails == out.status = "failed" => raised \/ PrintsOntoClose \/ LacksPriorYear

\* With volatility as it is, a smaller drawdown, a smaller beta, a better Sharpe
\* ratio or more traded value never lower the risk agent's score.
Safer(m, n) ==
    /\ \A f \in {"volatility", "recent", "sessions", "usable", "quality"} : n[f] = m[f]
    /\ n.drawdown <= m.drawdown
    /\ n.beta = m.beta \/ (Known(m.beta) /\ Known(n.beta) /\ n.beta <= m.beta)
    /\ n.sharpe = m.sharpe \/ (Known(m.sharpe) /\ Known(n.sharpe) /\ n.sharpe >= m.sharpe)
    /\ n.adtv = m.adtv \/ (Known(m.adtv) /\ Known(n.adtv) /\ n.adtv >= m.adtv)

SaferIsNotWorse ==
    [][(agent = "risk" /\ out.status = "ok" /\ out'.status = "ok" /\ Safer(seen, seen'))
       => out'.score >= out.score]_agentVars

\* When a discounted cash flow is scored its scenarios are in order, and the price at
\* which the view is said to be void has not been passed already by the price as it is
\* printed beside it, in whole rupees.  By less than half a rupee it may have been: the
\* limit is named rounded, and may be rounded past the price.
ScoredDcfIsCoherent ==
    (agent = "valuation" /\ out.status = "ok" /\ Known(Safety(seen))) =>
    LET s == Scenarios(seen)
        worst == {"bear"} \cap DOMAIN s
        best == {"bull"} \cap DOMAIN s
        limit == ValuationLimit(seen)
    IN /\ \A n \in worst : s[n] <= s["base"]
       /\ \A n \in best : s["base"] <= s[n]
       /\ Known(limit) => IF out.score > 5000 THEN WholeRupees(seen.price) <= limit
                        ELSE WholeRupees(seen.price) >= limit
================================================================================
