SPECIFICATION Spec
CONSTANTS
  NULL = NULL
  Half32 = 2
  Half64 = 4
  MaxLines = 3
  Names <- MCNames
  Numbers <- MCNumbers
  Texts <- MCTexts
  Clients <- MCClients
  Defaults <- MCDefaults
  Files <- MCFiles
INVARIANTS
  TypeOK
  EveryLineCounts
  EveryReadingFound
  StoredAsWritten
CHECK_DEADLOCK FALSE
