\* Two appenders that may overlap, four events in any order, one change behind
\* the sink's back.
CONSTANTS
    a1 = a1
    a2 = a2
    Events = {1, 2, 3, 4}
    Appenders <- TwoAppenders
    NoHash = 0
    MaxChanges = 1
SYMMETRY AppendersAreAlike
SPECIFICATION Spec
INVARIANTS
    VerdictIsRight
    AppendsMakeOneList
PROPERTIES
    NeverHealed
    ChangesAreLocated
