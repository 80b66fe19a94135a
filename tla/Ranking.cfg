SPECIFICATION RankingSpec
CONSTANTS
  Letters = {"a", "b", "c", "_"}
  Marks = {"none"}
  NoMark = "none"
  Alphabetic = {"a", "b", "c"}
  Punctuation = {"_"}
  Queries <- SomeQueries
  Lists <- SomeLists
  TooLong <- Longest
  SwappedCase <- LowerFirst
  NoAnswer = NoAnswer
INVARIANTS OrderIsStrictWeak AnswerDetermined
CHECK_DEADLOCK FALSE
