SPECIFICATION Spec
CONSTANTS
    LineLen = 5
    MaxSpans = 4
    Found <- EverySorted
INVARIANTS
    TypeOK
    SecretsHidden
    UnreadIntact
    SlicesInRange
CHECK_DEADLOCK FALSE
