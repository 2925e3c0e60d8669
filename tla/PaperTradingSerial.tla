-------------------------- MODULE PaperTradingSerial ---------------------------
(***************************************************************************)
(* PaperTrading implements PaperLedger when order requests come one at a    *)
(* time (SerialSpec): the book is the table of orders with the trade of     *)
(* each, the shares are the quantities of the position rows.                *)
(***************************************************************************)
EXTENDS PaperTrading

Book == [o \in OrderIds |->
           [key |-> orders[o].key, decision |-> orders[o].decision,
            trade |-> Traded(orders[o]), status |-> orders[o].status,
            price |-> orders[o].price]]

Shares == [pf \in Portfolios |-> [s \in Stocks |-> positions[pf][s].qty]]

Keys == {i.key : i \in Intents}
Approvals == {i.decision : i \in Intents}

Ledger == INSTANCE PaperLedger WITH book <- Book, shares <- Shares, Prices <- FillPrices

\* One request at a time, place_order is the atomic ledger of PaperLedger: keys
\* and approvals count once, every fill moves cash and shares exactly and within
\* the limits, whatever crashes, time and the kill switch do in between.
LedgerSpec == Ledger!Spec
=============================================================================
