\* Every kind of wait for a person, with failures and rollbacks in between.
CONSTANTS
    Features <- MCFeatures
    KeywordsOf <- MCKeywordsOf
    NeedsOf <- MCNeedsOf
    Ideas <- WaitIdeas
    Cards = {}
    Contradicting = {"echo"}
    Available = {}
    Catalog <- MCCatalog
    ServerSpecs <- MCServerSpecs
    Allowlist <- MCAllowlist
    MaxDecisions = 1
    NoText = NoText
    Idle = Idle
SPECIFICATION FairSpec
PROPERTY WaitingEnds
