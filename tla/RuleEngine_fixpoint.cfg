SPECIFICATION Spec
CONSTANTS
    T = T
    f1 = f1
    f2 = f2
    low = low
    any = any
    pair = pair
    Types = {T}
    Facts = {f1, f2}
    TypeOf <- MCTypeOf
    Vals = {0, 1}
    Rules = {low, pair}
    NumRules = 2
    Salience <- SalienceLow
    NoLoopRules = {pair}
    LockOnActiveRules = {low}
    Matches <- MCMatches
    Disciplined = TRUE
    MaxList = 2
    MaxDepth = 1
    MaxCalls = 0
    MaxFrames = 3
SYMMETRY FactSymmetry
INVARIANTS
    NoStaleMatch
    HigherSalienceFirst
    FixpointAtEnd
