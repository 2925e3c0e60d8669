---------------------------- MODULE PaperTrading_MC ----------------------------
(* Small instances of PaperTrading for TLC.                                 *)
EXTENDS PaperTradingSerial

CONSTANTS pf, s

Buy == [pf |-> pf, stock |-> s, side |-> "buy", qty |-> 1, limit |-> 2]
Sell == [pf |-> pf, stock |-> s, side |-> "sell", qty |-> 1, limit |-> 2]

MCProposals == {Buy, Sell}
BuyTwo == [Buy EXCEPT !.qty = 2]
SerialProposals == {Buy, BuyTwo, Sell}

Intent(d, k) == [decision |-> d, key |-> k, approver |-> "admin"]

\* Two decisions, each sent under two keys, and a key sent for both: requests meet at
\* the portfolio's lock, at a key, or at a position's row.
MCIntents == {Intent(1, "k1"), Intent(1, "k2"), Intent(3, "k2"), Intent(3, "k3")}

\* One decision sent under two keys, one key sent for two decisions, and the
\* decision a first re-check becomes.
SerialIntents == {Intent(1, "k1"), Intent(1, "k2"), Intent(3, "k2")}

=============================================================================
