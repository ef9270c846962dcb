\* One project whose text changes between every outcome of the gate, with one
\* question card and up to two decisions; no expansion is needed.
CONSTANTS
    Features <- MCFeatures
    KeywordsOf <- MCKeywordsOf
    NeedsOf <- MCNeedsOf
    Ideas <- GateIdeas
    Cards = {card}
    Contradicting = {"game"}
    Available = {}
    Catalog <- MCCatalog
    ServerSpecs <- MCServerSpecs
    Allowlist <- MCAllowlist
    MaxDecisions = 2
    NoText = NoText
    Idle = Idle
SPECIFICATION Spec
INVARIANTS
    TypeOK
    GateHeld
    Settled
    QuestionsMatchPhase
    OnlyEmptyTextIsRefused
    WorkMatchesStatus
