\* Two Readys before the first is received.
SPECIFICATION Spec
CONSTANTS
    PropCap = 1
    TickCap = 1
    ApplyCap = 1
    MaxLog = 2
INVARIANT NeverBlocks
