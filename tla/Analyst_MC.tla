------------------------------- MODULE Analyst_MC -------------------------------
(* A small instance of Analyst for TLC: the thresholds of config/aegis.yaml  *)
(* (but for the histories, which are short, and for one annual period, the   *)
(* least that the configuration allows),                                     *)
(* and for each agent an ordinary stock with one or two unusual facts.       *)
EXTENDS Analyst

MCRules ==
    [risk |-> [lowVolatility |-> 20, highVolatility |-> 40, lowBeta |-> 80, highBeta |-> 130,
               drawdownWarning |-> 30, minHistory |-> 2,
               weights |-> [volatility |-> 25, drawdown |-> 20, market |-> 15,
                            return_quality |-> 15, liquidity |-> 25]],
     technical |-> [minHistory |-> 2, adxTrend |-> 25, overbought |-> 70, oversold |-> 30,
                    breakoutVolume |-> 150, atrMultiple |-> 2,
                    weights |-> [trend |-> 35, momentum |-> 30, breakout |-> 15, volume |-> 10,
                                 mean_reversion |-> 10]],
     fundamental |-> [minPeriods |-> 1, strongGrowth |-> 15, marginMove |-> 2, highRoe |-> 15,
                      highRoce |-> 15, maxDebtToEquity |-> 100, minInterestCoverage |-> 3,
                      weakCashConversion |-> 80, expensivePe |-> 40, cheapPe |-> 12,
                      minGrowthForPeg |-> 5,
                      weights |-> [growth |-> 25, profitability |-> 25, balance_sheet |-> 20,
                                   cash_quality |-> 15, valuation |-> 15]],
     valuation |-> [years |-> 5, riskFree |-> 65, equityPremium |-> 70,
                    beta |-> [low |-> 30, high |-> 250],
                    terminal |-> [bear |-> 40, base |-> 50, bull |-> 60],
                    growthSpread |-> 4, waccSpread |-> 10, minGrowth |-> -5, maxGrowth |-> 25,
                    mosScale |-> 30],
     news |-> [halfLife |-> 5, window |-> 7, minItems |-> 3],
     macro |-> [rates |-> {"repo_rate", "gdp_growth", "cpi_inflation"},
                series |-> {"nifty_bank", "nifty50"},
                sensitivities |-> [banks |-> [nifty_bank |-> 100, repo_rate |-> -50, nifty50 |-> 50],
                                   none |-> [nifty50 |-> 100]]],
     portfolio |-> [maxSectorWeight |-> 30,
                    weights |-> [limits |-> 40, diversification |-> 30, volatility |-> 20, sector |-> 10]]]

Headline(age, event, sentiment) ==
    [age |-> age, event |-> event, sentiment |-> sentiment, label |-> Direction(sentiment),
     early |-> FALSE, importance |-> IF event = "other" THEN 30 ELSE 100]

Drivers == {None, -6, 0, 12}

MCUsual ==
    [risk |-> [sessions |-> 3, usable |-> TRUE, quality |-> 100, volatility |-> 30, recent |-> 30,
               drawdown |-> 15, beta |-> 100, sharpe |-> 60, adtv |-> 50],
     technical |-> [bars |-> 3, usable |-> TRUE, quality |-> 100, fresh |-> TRUE, gap |-> 4,
                    alignment |-> 1, cross |-> None, adx |-> 30, di |-> 1, macd |-> 1,
                    macdCross |-> None, rsi |-> 55, roc |-> 3, percentB |-> 60,
                    highDivergence |-> FALSE, lowDivergence |-> FALSE, range |-> None,
                    volume |-> 100, squeeze |-> FALSE, expansion |-> 100, month |-> 3,
                    balance |-> 1, close |-> 100000, support |-> 97000, resistance |-> 104000,
                    average |-> 96000, atr |-> 1500],
     fundamental |-> [periods |-> 2, licensed |-> TRUE, lender |-> FALSE, growth |-> 8, before |-> 7,
                      eps |-> 9, margin |-> 20, marginBefore |-> 20, roe |-> 18, roce |-> 16,
                      debt |-> 40, coverage |-> 6, conversion |-> 90, operating |-> 110,
                      pe |-> 22, peerPe |-> 20],
     valuation |-> [periods |-> 3, price |-> 900, lender |-> FALSE, complete |-> TRUE,
                    revenues |-> <<8000, 9000, 10000>>, margins |-> <<9, 10, 12>>, debt |-> 2000,
                    cash |-> 1000, shares |-> 20, beta |-> 100, interest |-> 200, tax |-> 25,
                    peers |-> [pe |-> 10, pb |-> None]],
     news |-> [installed |-> TRUE,
               items |-> {Headline(0, "results", 60), Headline(4, "lawsuit", -40),
                          Headline(9, "other", 10)}],
     macro |-> [sector |-> "banks", regime |-> "neutral",
                change |-> [nifty_bank |-> 3, repo_rate |-> 0, nifty50 |-> 2]],
     portfolio |-> [price |-> 90, correlation |-> 40, volatility |-> 1, room |-> 10,
                    limits |-> [stock |-> [before |-> "PASS", after |-> "PASS", offends |-> FALSE],
                                sector |-> [before |-> "PASS", after |-> "PASS", offends |-> FALSE]]]]

Checks == [before : {"PASS", "FAIL"}, after : {"PASS", "FAIL", "UNKNOWN"}, offends : BOOLEAN]

MCUnusual ==
    [risk |-> [sessions |-> {0, 2}, usable |-> {FALSE}, quality |-> {60}, volatility |-> {10, 25, 50},
               recent |-> {None, 10, 20, 50}, drawdown |-> {0, 10, 22, 40},
               beta |-> {None, 50, 80, 130, 160}, sharpe |-> {None, -80, 0, 120},
               adtv |-> {None, -10, 0, 200}],
     technical |-> [bars |-> {0, 1}, usable |-> {FALSE}, fresh |-> {FALSE}, gap |-> {None, -12, 0},
                    cross |-> {-1, 1}, alignment |-> {None, -1}, adx |-> {None, 10, 80}, di |-> {-1},
                    macd |-> {None, -1}, macdCross |-> {-1, 1}, rsi |-> {None, 5, 30, 70, 100},
                    roc |-> {None, -40}, percentB |-> {None, -5, 110}, highDivergence |-> {TRUE},
                    lowDivergence |-> {TRUE}, range |-> {-1, 1}, volume |-> {180}, squeeze |-> {TRUE},
                    expansion |-> {130, 250}, month |-> {-8, 0}, balance |-> {-1},
                    support |-> {None, 99996}, resistance |-> {None, 100003}, average |-> {None, 103000},
                    atr |-> {None, 0, 1}],
     fundamental |-> [periods |-> {0, 1}, licensed |-> {FALSE}, lender |-> {TRUE}, growth |-> {None, -30, 0},
                      before |-> {None, 20}, eps |-> {None, -20, 40}, margin |-> {None, 10, 40},
                      roe |-> {None, -5, 60}, roce |-> {None, 0}, debt |-> {None, 0, 300},
                      coverage |-> {None, 1, 90}, conversion |-> {None, -50, 200}, operating |-> {None, 40},
                      pe |-> {None, 1, 12, 90}, peerPe |-> {None, 60}],
     valuation |-> [periods |-> {1}, price |-> {None, 95, 300, 600, 1500, 4000}, lender |-> {TRUE}, complete |-> {FALSE},
                    revenues |-> {<<10000>>, <<10000, 7000>>, <<3000, 10000>>, <<0, 10000>>},
                    margins |-> {<<>>, <<10>>, <<-5, 8>>, <<4, 4>>, <<20, 40>>, <<30, 2>>},
                    debt |-> {0, 9000, 30000}, cash |-> {0}, shares |-> {0, 178}, beta |-> {None, 10, 400},
                    interest |-> {0, 3000}, peers |-> {[pe |-> None, pb |-> None], [pe |-> -60, pb |-> 150]}],
     news |-> [installed |-> {FALSE},
               items |-> {{Headline(0, e, a), Headline(g, f, b), [Headline(6, "results", 30) EXCEPT !.early = h, !.label = 0],
                           [Headline(12, "other", -10) EXCEPT !.sentiment = c]} :
                          e \in {"results", "earnings_beat"}, f \in {"results", "earnings_miss", "sector"},
                          a \in {-90, 0, 100}, b \in {-100, 20}, g \in {3, 10}, h \in BOOLEAN, c \in {None, 100}}],
     macro |-> [sector |-> {"none"}, regime |-> {"risk_on", "risk_off", "unknown"},
                change |-> [{"nifty_bank", "repo_rate", "nifty50"} -> Drivers]],
     portfolio |-> [price |-> {None}, correlation |-> {None, -100, 70, 100}, volatility |-> {None, -3, 0, 4},
                    room |-> {None, -20, 0},
                    limits |-> [{"stock", "sector"} -> Checks]]]
================================================================================
