SPECIFICATION CSpec
CONSTANTS
    NumberFields = {"quantity"}
    Wholes = {1, 2}
    Texts = {"soap", "None"}
    Clocks <- MCClocks
    Offset <- MCOffset
    Second = 2
    AnswerForms = {"int", "text", "float"}
    MaxEdits = 2
INVARIANTS ComparisonTypeOK FaithfulCopyAccepted RollbackStricter DriftBounded
CHECK_DEADLOCK FALSE
