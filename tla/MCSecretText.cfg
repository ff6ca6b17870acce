SPECIFICATION RawSpec
CONSTANTS
    Letter = {"K"}
    Digit = {"1"}
    Other = {"-"}
    MaxLength = 7
INVARIANTS ParsedAsWritten ShownIsSaved
CHECK_DEADLOCK FALSE
