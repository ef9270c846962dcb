\* Two sessions that register and expire agents of one project and of none.
CONSTANTS
    Sessions = {a, b}
    Definitions <- MCDefinitions
    Projects = {project}
    NoProject = NoProject
    KnownServers = {"jira-mcp"}
    RowIds <- MCRowIds
    NoDefinition = NoDefinition
SYMMETRY SessionSymmetry
SPECIFICATION Spec
INVARIANTS
    TypeOK
    LookupFindsOne
PROPERTY
    ExpiryIsNotUndone
