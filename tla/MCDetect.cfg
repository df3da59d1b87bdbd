CONSTANTS
    Cases <- MCCases
    MaxBus = 5
    WordMax = 260
SPECIFICATION Spec
INVARIANTS RightlyFound  HandRight
PROPERTIES Restored Ends
