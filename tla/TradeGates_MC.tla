----------------------------- MODULE TradeGates_MC -----------------------------
(* A small instance of TradeGates for TLC: an ordinary day on which every    *)
(* gate passes, and two facts at a time that are not ordinary.               *)
EXTENDS TradeGates

MCConfig ==
    [deviation |-> 5, quality |-> 900, age |-> 24, conflicts |-> 0, calibration |-> 50,
     periods |-> 4, profit |-> 650, net |-> 50, benchmark |-> 120, edge |-> 30,
     minDays |-> 5, maxDays |-> 250, rewardRisk |-> 23, adtv |-> 1000, participation |-> 10,
     spread |-> 25, halfSpread |-> 2, fixedCost |-> 4, impact |-> 100, financing |-> 60,
     risk |-> 20, orderValue |-> 100, kelly |-> 250, volatility |-> 150, weight |-> 100,
     sector |-> 300, gross |-> 1000, daily |-> 20, weekly |-> 50, drawdown |-> 150]

Buy == [side |-> "buy", mode |-> "paper", qty |-> 4, entry |-> 10, stop |-> 8,
        target |-> 20, horizon |-> 20, spread |-> 3]
Sell == [Buy EXCEPT !.side = "sell", !.qty = 2, !.stop = None, !.target = None]

\* A target of 15 pays for the costs of one share and not for those of three.
MCProposals ==
    {Buy, Sell,
     [Buy EXCEPT !.qty = 1, !.target = 15], [Buy EXCEPT !.qty = 3, !.target = 15],
     [Buy EXCEPT !.qty = 2], [Buy EXCEPT !.qty = 5], [Buy EXCEPT !.stop = None], [Buy EXCEPT !.stop = 9, !.spread = 8],
     [Buy EXCEPT !.spread = None], [Buy EXCEPT !.horizon = 30], [Buy EXCEPT !.mode = "live"],
     [Sell EXCEPT !.spread = None], [Sell EXCEPT !.spread = 30], [Sell EXCEPT !.qty = 3]}

Report == [verified |-> TRUE, age |-> 1, positive |-> TRUE, conflicts |-> 0]
Model == [horizon |-> 20, calibrated |-> TRUE, error |-> 20, periods |-> 6, profit |-> 700,
          gross |-> 150, licensed |-> TRUE]

MCUsual ==
    [kill |-> "off", mode |-> "paper", flag |-> FALSE, broker |-> None,
     sizing |-> "fixed_fractional", stock |-> "listed", close |-> 10, fresh |-> TRUE, licensed |-> TRUE, quality |-> 950,
     adtv |-> 4000, volatility |-> 200, report |-> Report, estimate |-> Model,
     kind |-> "paper", cash |-> 100, held |-> 2, others |-> 480,
     sector |-> "it", peers |-> 60, elsewhere |-> 60, unclassified |-> 60, rest |-> "PASS",
     snapshots |-> [day |-> 430, week |-> 430, peak |-> 500], start |-> 430]

\* The broker of this build never reports its health.
MCUnusual ==
    [kill |-> {"on", "unreadable"}, mode |-> {"live", "research"}, flag |-> {TRUE},
     broker |-> {}, sizing |-> {"volatility_target", "fractional_kelly"},
     stock |-> {None, "inactive"}, close |-> {None, 11}, fresh |-> {FALSE},
     licensed |-> {FALSE}, quality |-> {None, 800}, adtv |-> {None, 0, 900, 3000},
     volatility |-> {None, 900},
     report |-> {None, [Report EXCEPT !.verified = FALSE], [Report EXCEPT !.age = 30],
                 [Report EXCEPT !.positive = FALSE], [Report EXCEPT !.conflicts = 1]},
     estimate |-> {None, [Model EXCEPT !.horizon = 30], [Model EXCEPT !.calibrated = FALSE],
                   [Model EXCEPT !.profit = 500], [Model EXCEPT !.gross = 60],
                   [Model EXCEPT !.periods = 2], [Model EXCEPT !.licensed = None],
                   [Model EXCEPT !.licensed = FALSE]},
     kind |-> {None, "model"}, cash |-> {30}, held |-> {0, 4}, others |-> {None, 320, 800},
     sector |-> {None}, peers |-> {120, 125}, elsewhere |-> {190}, unclassified |-> {185},
     rest |-> {"FAIL", "UNKNOWN"}, start |-> {0, 720},
     snapshots |-> {NoSnapshots, [day |-> 430, week |-> 640, peak |-> 640],
                    [day |-> 615, week |-> None, peak |-> 615],
                    [day |-> 430, week |-> 430, peak |-> 710]}]

MCBreakages == {{}, {"expected_net_return"}, {"reward_risk"}, {"spread"}}
=============================================================================
