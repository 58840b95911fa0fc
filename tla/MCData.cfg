CONSTANTS
    Words <- MCWords
    Exact <- MCExact
    Folded <- MCFolded
    Features <- MCFeatures
    Answers <- MCAnswers
    Models = 2
    MaxFeatures = 2
SPECIFICATION Spec
INVARIANT DataLibrariesAreNotServers
