SPECIFICATION FairSpec
CONSTANTS
  None = None
  MaxBooks = 1
  MaxJobs = 2
  MaxReads = 1
INVARIANTS
  DeskTypeOK
  BooksShownAreCurrent
  OneJobPerPage
PROPERTIES
  DeskSettles
