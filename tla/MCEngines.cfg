CONSTANTS
    Words <- MCWords
    Exact <- MCExact
    Folded <- MCFolded
    Features <- MCFeatures
    Answers <- MCAnswers
    Models = 2
    MaxFeatures = 3
SPECIFICATION Spec
INVARIANTS
    ClearRulesStand
    NonAIMeansNoAI
    RuntimeNeedsHandshake
PROPERTIES
    GrowingKeepsServer
    GrowingNeverCleans
    GrowingNeverCosts
