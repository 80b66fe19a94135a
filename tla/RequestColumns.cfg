SPECIFICATION Spec
CONSTANT Lines <- ShortLines
INVARIANTS QueryIsIdentifier BytesAgree LearnsWhatWasTyped CursorBetween
CHECK_DEADLOCK FALSE
