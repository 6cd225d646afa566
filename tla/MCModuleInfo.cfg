CONSTANTS
    Cap <- MCCap
    MaxChars = 3
    Invalid = Invalid
SPECIFICATION Spec
INVARIANTS TypeOK TruncatedReadsBack
CHECK_DEADLOCK FALSE
