CONSTANTS
    None = None
    Config <- MCConfig
    Proposals <- MCProposals
    Usual <- MCUsual
    Unusual <- MCUnusual
    Breakages <- MCBreakages
    MaxOdd = 2
SPECIFICATION Spec
INVARIANTS
    IgnoranceNeverHelps
    BreakageNeverHelps
    ApprovedEntryFits
    SmallerIsSafer
    ExitsIgnoreResearch
