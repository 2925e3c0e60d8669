------------------------------ MODULE PaperLedger ------------------------------
(***************************************************************************)
(* What paper trading promises its users: a book of orders in which a key   *)
(* and an approval count once, and a ledger of cash and shares that each    *)
(* fill moves atomically, exactly, within the limits.  PaperTrading refines *)
(* it as long as order requests come one at a time.                         *)
(***************************************************************************)
EXTENDS Integers, Sequences

CONSTANTS Portfolios, Stocks, Proposals, Keys, Approvals, Prices, StartingCash, FeePerShare, MaxHolding

VARIABLES
    book,     \* orders in the order they were stored
    cash,     \* of each portfolio
    shares    \* held by each portfolio of each stock

vars == <<book, cash, shares>>

Entries == DOMAIN book

Init ==
    /\ book = <<>>
    /\ cash = [pf \in Portfolios |-> StartingCash]
    /\ shares = [pf \in Portfolios |-> [s \in Stocks |-> 0]]

Enter(key, decision, trade, status, price) ==
    /\ \A e \in Entries : book[e].key # key
    /\ book' = Append(book, [key |-> key, decision |-> decision, trade |-> trade,
                             status |-> status, price |-> price])

Unfilled(decision) ==
    \A e \in Entries : book[e].decision = decision => book[e].status = "REJECTED"

Move(trade, money, quantity) ==
    /\ cash' = [cash EXCEPT ![trade.pf] = @ + money]
    /\ shares' = [shares EXCEPT ![trade.pf][trade.stock] = @ + quantity]
    /\ cash'[trade.pf] >= 0
    /\ shares'[trade.pf][trade.stock] >= 0

Buy(key, decision, trade, price) ==
    /\ trade.side = "buy" /\ price <= trade.limit
    /\ Unfilled(decision)
    /\ Enter(key, decision, trade, "FILLED", price)
    /\ Move(trade, 0 - trade.qty * price - trade.qty * FeePerShare, trade.qty)
    /\ shares'[trade.pf][trade.stock] <= MaxHolding

Sell(key, decision, trade, price) ==
    /\ trade.side = "sell" /\ price >= trade.limit
    /\ Unfilled(decision)
    /\ Enter(key, decision, trade, "FILLED", price)
    /\ Move(trade, trade.qty * price - trade.qty * FeePerShare, 0 - trade.qty)

Refuse(key, decision, trade) ==
    /\ Enter(key, decision, trade, "REJECTED", 0)
    /\ UNCHANGED <<cash, shares>>

Next ==
    \E key \in Keys, decision \in Approvals, trade \in Proposals :
        \/ Refuse(key, decision, trade)
        \/ \E price \in Prices :
              Buy(key, decision, trade, price) \/ Sell(key, decision, trade, price)

Spec == Init /\ [][Next]_vars
=============================================================================
