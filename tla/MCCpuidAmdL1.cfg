SPECIFICATION Spec
CONSTANTS
    Processors <- OneAmd
INVARIANT AmdL1Kinds
CHECK_DEADLOCK FALSE
