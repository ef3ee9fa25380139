\* Three flows with one source and two generations; enough operations for one
\* to be begun, superseded, expired, and its token presented again.
CONSTANTS
    Flow = {f1, f2, f3}
    Fingerprint = {src}
    NoFingerprint = NoFingerprint
    NoToken = NoToken
    Generation = {0, 1}
    MaxId = 4
SYMMETRY Flows
SPECIFICATION Spec
INVARIANTS TypeOK OneAuthority
PROPERTIES DisconnectPrevails KeepsPromise
CHECK_DEADLOCK FALSE
