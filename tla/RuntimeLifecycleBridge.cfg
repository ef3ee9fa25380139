\* Two flows, one start that may bring a bridge up before the core.  No symmetry,
\* for StopPrevails.
SPECIFICATION Spec
CONSTANTS
    f1 = f1
    f2 = f2
    Flow = {f1, f2}
    NoFlow = NoFlow
    Bridge = {"xray"}
    MaxGeneration = 1
INVARIANT NoStrayRuntime
PROPERTY StopPrevails
