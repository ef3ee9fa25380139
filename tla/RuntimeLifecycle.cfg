\* Two flows and two generations of the core alone.  No symmetry, for CallsReturn.
SPECIFICATION Spec
CONSTANTS
    f1 = f1
    f2 = f2
    Flow = {f1, f2}
    NoFlow = NoFlow
    Bridge = {}
    MaxGeneration = 2
INVARIANTS OneStartOneStop NoEngineLost
PROPERTY CallsReturn
