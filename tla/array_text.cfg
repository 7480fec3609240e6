CONSTANTS
  Letters = {"a"}
  Blanks = {"U+00A0"}
  MaxLen = 2
  MaxElems = 2
SPECIFICATION FairSpec
INVARIANT ElementsSurvive
PROPERTY ParserReturns
CHECK_DEADLOCK FALSE
