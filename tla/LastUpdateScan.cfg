SPECIFICATION Spec
CONSTANTS
  Versions <- MCVersions
  CommandLines <- MCCommandLines
  MaxTransactions = 3
INVARIANTS TypeOK ResultIsReal AnswerWasTrue ScanInv
