\* The text changes after the gate has judged it.
CONSTANTS
    Features <- MCFeatures
    KeywordsOf <- MCKeywordsOf
    NeedsOf <- MCNeedsOf
    Ideas <- GateIdeas
    Cards = {}
    Contradicting = {}
    Available = {}
    Catalog <- MCCatalog
    ServerSpecs <- MCServerSpecs
    Allowlist <- MCAllowlist
    MaxDecisions = 0
    NoText = NoText
    Idle = Idle
SPECIFICATION Spec
INVARIANT ProhibitedIsNeverSpecified
