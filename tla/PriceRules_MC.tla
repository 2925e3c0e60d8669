----------------------------- MODULE PriceRules_MC ------------------------------
(* Small instances of PriceRules for TLC.                                   *)
EXTENDS PriceRules

MCBars == {[close |-> 10, rsi |-> None], [close |-> 12, rsi |-> 70]}
=================================================================================
