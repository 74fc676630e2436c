SPECIFICATION PagesSpec
CONSTANTS
  A = A
  B = B
  l1 = l1
  Texts <- TwoTexts
  Blank = B
  Lists <- OneList
  NoAnswer = NoAnswer
  Slots = {1, 2}
  Keep = 3
  Show = 2
  PanelSlots = {1, 2}
  MaxEvents = 3
  MaxLives = 2
  MaxContact = 2
  MaxChanges = 3
  PageSize = 1
  AskSlots = {1, 2}
  Emails = {1, 2}
  Visitors = {1}
  Searches <- TwoSearches
  RowsPerPage = 1
  ReadSlots = {1, 2}
  MaxRevision = 2
INVARIANTS
  WizardTruthful
  PanelTruthful
  
  OptOutsKept
CHECK_DEADLOCK FALSE
