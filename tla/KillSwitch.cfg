SPECIFICATION Spec
CONSTANTS
    Thread = {t1, t2}
    Handle = {h1, h2, h3}
    NoThread = NoThread
    NoCache = NoCache
    MaxVersion = 4
SYMMETRY Symmetric
INVARIANT NoLostHandle
PROPERTY NoFailOpenWindow
