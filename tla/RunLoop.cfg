\* A node's loop in every role: new and repeated entries, proposals,
\* acknowledgements, elections and ticks.
SPECIFICATION Spec
CONSTANTS
    PropCap = 1
    TickCap = 1
    ApplyCap = 1
    MaxLog = 3
INVARIANTS
    TypeOK
    AppliedInOrder
    SavedUnlessRepeated
PROPERTIES
    CommittedEventuallyApplied
    ImplementsDelivery
