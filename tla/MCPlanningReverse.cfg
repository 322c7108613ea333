\* An order whose user refers to it, linked by the relationship against that key.
SPECIFICATION Spec
CONSTANTS
    user = user
    order = order
    note = note
    NoLink = NoLink
    Tables <- MCTables
    Keys <- MCKeys
    Layouts <- ReversedLayouts
    Mappings <- MCMappings
    Links <- ReversedLinks
    Contents <- ReversedContents
    Ids = {1, 2}
    Pointings <- MCPointings
INVARIANTS
    NothingIsLeft
\* An erasure ends.
CHECK_DEADLOCK FALSE
