\* One project whose text changes between needs that policy approves
\* automatically, gives to the user, to a developer, or blocks, and one that
\* the gate gives to a developer, too; the question cards stay out of the way.
CONSTANTS
    Features <- MCFeatures
    KeywordsOf <- MCKeywordsOf
    NeedsOf <- MCNeedsOf
    Ideas <- ExpansionIdeas
    Cards = {}
    Contradicting = {}
    Available = {}
    Catalog <- MCCatalog
    ServerSpecs <- MCServerSpecs
    Allowlist <- MCAllowlist
    MaxDecisions = 0
    NoText = NoText
    Idle = Idle
SPECIFICATION Spec
INVARIANTS
    Settled
    OnlyEmptyTextIsRefused
    ConsultationIsFresh
    BlockedStaysUnconnected
    OnlyAutoApprovedIsLeftOut
