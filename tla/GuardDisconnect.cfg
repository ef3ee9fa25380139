\* The documented end of the block with an ordinary disconnect.
SPECIFICATION Spec
CONSTANTS
    MaxEvents = 2
    MaxFaults = 0
INVARIANT DisconnectOpens
