SPECIFICATION FairSpec
CONSTANTS
    T = T
    f1 = f1
    f2 = f2
    low = low
    any = any
    pair = pair
    Types = {T}
    Facts = {f1}
    TypeOf <- MCTypeOf
    Vals = {0, 1}
    Rules = {low, any}
    NumRules = 2
    Salience <- SalienceFlat
    NoLoopRules = {any}
    LockOnActiveRules = {low, any}
    Matches <- MCMatches
    Disciplined = FALSE
    MaxList = 2
    MaxDepth = 3
    MaxCalls = 2
    MaxFrames = 4
INVARIANTS
    TypeOK
    LockMatchesEngine
    NoMarksLeft
    RecursionBounded
PROPERTIES
    FactsFrozen
    LockOnActiveOnce
    EngineEnds
