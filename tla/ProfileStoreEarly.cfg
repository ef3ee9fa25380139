\* A change made before the bootstrap has ended, and what the comments say of it.
SPECIFICATION Spec
CONSTANTS
    i1 = i1
    i2 = i2
    Item = {i1, i2}
    MaxChanges = 3
    MaxFaults = 3
SYMMETRY Symmetry
PROPERTY EarlyChangeSurvives
