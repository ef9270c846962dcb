\* Expansions that the user may refuse.
CONSTANTS
    Features <- MCFeatures
    KeywordsOf <- MCKeywordsOf
    NeedsOf <- MCNeedsOf
    Ideas <- ExpansionIdeas
    Cards = {}
    Contradicting = {}
    Available = {}
    Catalog <- MCCatalog
    ServerSpecs <- MCServerSpecs
    Allowlist <- MCAllowlist
    MaxDecisions = 0
    NoText = NoText
    Idle = Idle
SPECIFICATION Spec
INVARIANT SomeoneCanGoOn
