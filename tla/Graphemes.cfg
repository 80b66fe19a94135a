SPECIFICATION BreakSpec
CONSTANT Texts <- Words
INVARIANTS BreaksFollowRules
CHECK_DEADLOCK FALSE
