SPECIFICATION Spec
CONSTANTS
    T = T
    f1 = f1
    f2 = f2
    low = low
    any = any
    pair = pair
    Types = {T}
    Facts = {f1, f2}
    TypeOf <- MCTypeOf
    Vals = {0, 1}
    Rules = {any}
    NumRules = 1
    Salience <- SalienceFlat
    NoLoopRules = {any}
    LockOnActiveRules = {}
    Matches <- MCMatches
    Disciplined = TRUE
    MaxList = 2
    MaxDepth = 1
    MaxCalls = 0
    MaxFrames = 4
PROPERTIES
    NoLoopOnce
