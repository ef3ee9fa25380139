SPECIFICATION GateSpec
CONSTANTS
    Thread = {t1, t2}
    Waits = {"SourceVerification"}
    MaxGeneration = 2
    MaxTicket = 3
INVARIANTS PermitAccounted NoGhostWaiter WakeNotLostAtFirst
PROPERTY CallsEnd
