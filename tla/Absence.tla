------------------------------- MODULE Absence -------------------------------
(***************************************************************************)
(* None of the code: an agent's score, a fact or a date that is missing.    *)
(***************************************************************************)

CONSTANT None

Known(fact) == fact # None
==============================================================================
