------------------------------- MODULE Synthesis -------------------------------
(***************************************************************************)
(* How the orchestrator turns the outputs of the agents into a stance       *)
(* (orchestrator/synthesis.py): a weighted mean of the agents that have a   *)
(* result and a vote, a veto of the constraint agents, conflicts between    *)
(* agents and a confidence.  Scores run from 0 to 100, weights, confidences *)
(* and the penalty are in per cent.                                         *)
(***************************************************************************)
EXTENDS Absence, Integers, FiniteSets, FiniteSetsExt

CONSTANT Orchestrator   \* weights, required, minOk, band, gap, penalty, vetoes

AgentNames == {"technical", "fundamental", "valuation", "risk", "news", "macro", "portfolio"}

OrchestratorRules(rules) ==
    /\ DOMAIN rules.weights \cup rules.required \cup DOMAIN rules.vetoes \subseteq AgentNames
    /\ \A a \in DOMAIN rules.weights : rules.weights[a] \in 1 .. 100
    /\ MapThenSumSet(LAMBDA a : rules.weights[a], DOMAIN rules.weights) = 100
    /\ \A a \in DOMAIN rules.vetoes : rules.vetoes[a] \in 0 .. 100
    /\ rules.minOk \in 1 .. 7
    /\ rules.band \in 1 .. 49 /\ rules.gap \in 1 .. 100 /\ rules.penalty \in 0 .. 99

ASSUME OrchestratorAssumption == OrchestratorRules(Orchestrator)

\* Agents with a result, and those of them whose score is a vote.
Usable(outs) == {a \in DOMAIN outs : outs[a].status = "ok"}
Voters(outs) == Usable(outs) \ DOMAIN Orchestrator.vetoes

\* An agent that is switched off is neither a vote nor missing coverage.
Vote(outs, a) == IF outs[a].status = "not_active" \/ a \notin DOMAIN Orchestrator.weights THEN 0
                 ELSE Orchestrator.weights[a]
Votes(outs, agents) == MapThenSumSet(LAMBDA a : Vote(outs, a), agents)

CompositeScore(outs) ==
    LET voters == Voters(outs) IN
    IF Votes(outs, voters) = 0 THEN None
    ELSE MapThenSumSet(LAMBDA a : Vote(outs, a) * outs[a].score, voters) \div Votes(outs, voters)

\* The veto looked at from the wrong side.
VetoHits_reversed(outs) ==
    {a \in DOMAIN Orchestrator.vetoes \cap Usable(outs) : outs[a].score >= Orchestrator.vetoes[a]}

VetoHits(outs) ==
    {a \in DOMAIN Orchestrator.vetoes \cap Usable(outs) : outs[a].score < Orchestrator.vetoes[a]}

Lacking(outs) == \/ ~(Orchestrator.required \subseteq Usable(outs))
                 \/ Cardinality(Usable(outs)) < Orchestrator.minOk

Stance(outs) ==
    LET score == CompositeScore(outs) IN
    CASE Lacking(outs) \/ score = None -> "INSUFFICIENT_DATA"
      [] ~Lacking(outs) /\ score # None /\ score >= 50 + Orchestrator.band ->
            IF VetoHits(outs) # {} THEN "NO_CLEAR_TILT" ELSE "POSITIVE_TILT"
      [] ~Lacking(outs) /\ score # None /\ score <= 50 - Orchestrator.band -> "NEGATIVE_TILT"
      [] OTHER -> "NO_CLEAR_TILT"

\* A score of zero counts as neutral when conflicts are looked for.
Leaning(out) == IF out.score = 0 THEN 50 ELSE out.score

Conflicts(outs) ==
    {c \in Usable(outs) \X Usable(outs) :
       /\ 2 * Leaning(outs[c[1]]) >= 100 + Orchestrator.gap
       /\ 2 * Leaning(outs[c[2]]) <= 100 - Orchestrator.gap}

Coverage(outs) == IF Votes(outs, DOMAIN outs) = 0 THEN 0
                  ELSE (100 * Votes(outs, Usable(outs))) \div Votes(outs, DOMAIN outs)

\* Every conflict takes the penalty off the covered confidence.
Confidence(outs) ==
    LET ok == Usable(outs)
        base == MapThenSumSet(LAMBDA a : Vote(outs, a) * outs[a].confidence, ok)
        dented[n \in Nat] == IF n = 0 THEN ((base \div Votes(outs, ok)) * Coverage(outs)) \div 100
                             ELSE (dented[n - 1] * (100 - Orchestrator.penalty)) \div 100
    IN IF Votes(outs, ok) = 0 THEN 0 ELSE dented[Cardinality(Conflicts(outs))]

Synthesize(outs) ==
    [stance |-> Stance(outs), composite |-> CompositeScore(outs), vetoes |-> VetoHits(outs),
     conflicts |-> Conflicts(outs), confidence |-> Confidence(outs)]
================================================================================
