SPECIFICATION Spec
CONSTANTS
  ab = ab
  abc = abc
  b = b
  long = long
  Filetypes = {"cpp", "text"}
  Paths = {"x", "y"}
  Names = {ab, abc, b, long}
  Requests = {r1}
  Queries = {"", "a", "b", "cut"}
  Buffers <- SomeBuffers
  TooLong = {long}
  Short = {b}
  ShortQueries = {""}
  CutQueries = {"cut"}
  Semantic = {"cpp"}
  Matches <- SomeMatches
  Rank <- SomeRanks
  NoName = NoName
  NoAnswer = NoAnswer
  NoRequest = NoRequest
  MaxEvents = 3
INVARIANTS ResultsExact
PROPERTY PromiseHolds
CHECK_DEADLOCK FALSE
