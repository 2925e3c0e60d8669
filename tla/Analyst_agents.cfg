SPECIFICATION AgentSpec
CONSTANTS
  None = None
  Rules <- MCRules
  Usual <- MCUsual
  Unusual <- MCUnusual
  MaxOdd = 2
INVARIANTS
  OnlyBreakageFails
  ScoredDcfIsCoherent
PROPERTIES
  SaferIsNotWorse
