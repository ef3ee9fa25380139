SPECIFICATION Spec
CONSTANTS
    i1 = i1
    i2 = i2
    Item = {i1, i2}
    MaxChanges = 2
    MaxFaults = 3
SYMMETRY Symmetry
INVARIANTS
    TypeOK
    StoreIsSynced
    BackupStaysErased
PROPERTIES
    StoreIsNeverLost
    NoPlaintextAgain
