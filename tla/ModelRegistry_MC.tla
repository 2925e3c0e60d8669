---------------------------- MODULE ModelRegistry_MC ---------------------------
(* Small instances of ModelRegistry for TLC.                                *)
EXTENDS ModelRegistry

\* In this build every candidate fails survivorship; one also shows no skill.
MCValidations == {{"survivorship"}, {"survivorship", "skill"}}
=============================================================================
