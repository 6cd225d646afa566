CONSTANTS
    Cap <- MCCap
    MaxChars = 3
    Invalid = Invalid
SPECIFICATION Spec
INVARIANT NameValid
CHECK_DEADLOCK FALSE
