SPECIFICATION Spec
CONSTANTS
  Letters = {"a", "e", "_"}
  Marks = {"none", "acute"}
  NoMark = "none"
  Alphabetic = {"a", "e"}
  Punctuation = {"_"}
  Queries <- SomeQueries
  Texts <- SomeTexts
INVARIANTS NoneIsNone Leftmost SmallestSum PrefixIsPrefix SmartMatching WordBoundaryMatches
CHECK_DEADLOCK FALSE
