SPECIFICATION Spec
CONSTANTS
    Processors <- AllProcessors
INVARIANTS CanonicalDetails SharedByCore NothingLost
CHECK_DEADLOCK FALSE
