SPECIFICATION MCSpec
CONSTANTS
    Names = {"r1", "r2", "r3", "r4"}
    NoBase = "none"
    MaxFacts = 8
    This = This
    f = f
    g = g
    h = h
    Funcs = {f, g, h}
    Inherited = Inherited
    Contracts = {This, Inherited}
    Sources <- MCSources
    Facts = {"a", "b"}
    Memories <- AllMemories
    Garbage = {"a"}
    MaxStrays = 1
INVARIANTS
    ConstraintsKept
    LabelsPlacedOnce
    NetworkExact
PROPERTIES
    CompilationEnds
CHECK_DEADLOCK FALSE
