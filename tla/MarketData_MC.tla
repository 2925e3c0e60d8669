----------------------------- MODULE MarketData_MC -----------------------------
(* Small instances of MarketData for TLC.                                   *)
EXTENDS MarketData, TLC

Split(d, r) == [kind |-> "split", ex |-> d, ratio |-> <<r, 1>>]
Dividend(d, c) == [kind |-> "dividend", ex |-> d, ratio |-> <<c, 1>>]

\* A two-for-one split and a bonus of two shares for one, both on the second day.
SplitAndBonus == {[closes |-> <<12, 2, 2>>, actions |-> {Split(2, 2), Split(2, 3)}]}

\* A dividend on the second day and a two-for-one split on the third.
DividendThenSplit == {[closes |-> <<8, 12, 6>>, actions |-> {Dividend(2, 2), Split(3, 2)}]}

MCWorlds == DividendThenSplit \cup SplitAndBonus

MCRestatements == {<<2, 10>>}

MCFlaws == {<<"missing", 2>>, <<"corrupt", 1>>, <<"twice", 3>>}

MCSymmetry == Permutations(Jobs)
=================================================================================
