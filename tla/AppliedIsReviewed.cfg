SPECIFICATION DiffSpec
CHECK_DEADLOCK FALSE
CONSTANTS
  Texts = {"p"}
  BaseLines = 3
  Inserted = 1
  MaxAdded = 1
INVARIANTS
  CommittedIsReviewed
