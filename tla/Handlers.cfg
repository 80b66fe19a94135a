SPECIFICATION Spec
CONSTANTS
  IndeterminateInt = 77
  IndeterminateBool = TRUE
  IndeterminateName = "BufferVisit"
  Sessions <- TwoSessions
  OptionsFiles <- Files
  Requests <- TwoClients
  ClangdMessages <- Messages
  ColumnCodepoint <- Column
  StartCodepoint <- First
  StartColumn <- FirstByte
  LineLength <- Four
  QueryIsCut <- IsUmlaut
  FiletypeIsKnown <- IsLearnt
  Identifiers <- TwoIdentifiers
  LengthOf <- TextLength
  FilterAndSort <- EveryOther
INVARIANTS
  SuggestsWhatClangdSent ClientReadsSame AsksAboutCursor
  SentIsReadBack ThrowsForCause PumpEndsForCause
PROPERTIES UsesCurrentOptions
CHECK_DEADLOCK FALSE
