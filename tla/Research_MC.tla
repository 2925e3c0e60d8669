------------------------------ MODULE Research_MC ------------------------------
(***************************************************************************)
(* One stock, two workers: prices, financials and headlines are ingested   *)
(* while five of the agents analyse.  Weights and thresholds are those of   *)
(* config/aegis.yaml, with fewer agents required.                          *)
(***************************************************************************)
EXTENDS Research, TLC

CONSTANTS p1, p2, s1

MCPlan == <<"technical", "fundamental", "risk", "news", "portfolio">>
MCReads == [technical |-> "prices", fundamental |-> "financials", risk |-> "prices",
            news |-> "news", portfolio |-> "holdings"]
MCOrchestrator ==
    [weights |-> [technical |-> 20, fundamental |-> 20, valuation |-> 15, risk |-> 20,
                  news |-> 10, macro |-> 10, portfolio |-> 5],
     required |-> {"risk"}, minOk |-> 3, band |-> 10, gap |-> 25, penalty |-> 15,
     vetoes |-> [risk |-> 40]]

MCStocks == <<s1>>
MCLicensed == [yahoo |-> FALSE, filing |-> TRUE]

Row(store, source, value, available, estimated) ==
    [stock |-> s1, store |-> store, source |-> source, value |-> value,
     available |-> available, estimated |-> estimated, retrieved |-> 0, version |-> 1]
MCStored == {Row("prices", "yahoo", 30, 0, FALSE), Row("financials", "yahoo", 90, 0, TRUE)}

Told(store, source, value, available, estimated) ==
    [stock |-> s1, store |-> store, source |-> source, value |-> value,
     available |-> available, estimated |-> estimated,
     since |-> IF estimated THEN 1 ELSE available]
Item(title, value, published) == [title |-> title, value |-> value, published |-> published]

MCPayloads ==
    {Told("prices", "yahoo", 80, 1, FALSE),
     Told("financials", "filing", 40, 1, FALSE),
     [stock |-> s1, store |-> "news", since |-> 1,
      items |-> <<Item("results", 90, 1), Item("results again", 90, 1)>>],
     [stock |-> s1, store |-> "news", since |-> 2,
      items |-> <<Item("results once more", 10, None)>>]}

MCNear == {{"results", "results again"}, {"results", "results once more"},
           {"results again", "results once more"}}
Workers == Permutations({p1, p2})
MCQuestions == {[back |-> 0, ahead |-> 0, fit |-> TRUE], [back |-> 1, ahead |-> 1, fit |-> FALSE]}
================================================================================
