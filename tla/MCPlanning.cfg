\* Every declaration of three tables over five sets of foreign keys, by both resolvers.
SPECIFICATION Spec
CONSTANTS
    user = user
    order = order
    note = note
    NoLink = NoLink
    Tables <- MCTables
    Keys <- MCKeys
    Layouts <- MCLayouts
    Mappings <- MCMappings
    Links <- MCLinks
    Contents <- MCContents
    Ids = {1, 2}
    Pointings <- MCPointings
INVARIANTS
    LintForetellsResolution
    ResolversAgree
    NothingIsLeft
    OnlyWhatIsDeclared
    KeyErrorsAreForeign
    VerdictIsRight
    SweepsAgreeWithErasures
\* An erasure ends.
CHECK_DEADLOCK FALSE
