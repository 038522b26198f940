SPECIFICATION FairSpec
CONSTANTS
  Letter = {"a"}
  Words = {"get", "update", "", "other"}
  Rest <- MCRest
  Quotations <- MCQuotations
  MaxLength = 5
  MaxName = 3
INVARIANTS TypeOK ArgumentsAreNames ReadsAsWritten EscapesAreUndone
PROPERTY ParsingEnds
CHECK_DEADLOCK FALSE
