SPECIFICATION LeavesSpec
CONSTANTS
    Ids = {i1, i2, i3}
    Aliases = {a1, a2, a3}
    Factories = {f1, f2}
    Blank = Blank
    NoRow = NoRow
    NoFactory = NoFactory
    Callers = {c1, c2}
    Times = {1, 2, 4}
    MaxIds = 4
SYMMETRY Symmetric
INVARIANTS
    OneDefault
    NoDanglingLookup
    IdsFollowCalls
PROPERTY BindingsArePermanent
