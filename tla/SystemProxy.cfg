SPECIFICATION Spec
CONSTANTS
    a1 = a1
    a2 = a2
    u1 = u1
    Attempt = {a1, a2}
    NoAttempt = NoAttempt
    Endpoint = {"legacy", "free"}
    Legacy = "legacy"
    NoEndpoint = "none"
    User = {u1}
    MaxEvents = 3
    MaxFaults = 1
SYMMETRY Symmetry
INVARIANTS TypeOK GivenBack NobodyIsSentNowhere
