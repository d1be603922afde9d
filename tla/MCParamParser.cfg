SPECIFICATION Spec
CONSTANTS
  Address <- MCAddress
  Ticker <- SourceTickers
  Garbage <- MCGarbage
  Transactions <- MCTransactions
INVARIANTS
  TypeOK
  DecodedAsAbi
  ReadAtItsWord
  IInv
  PathDamageConfined
PROPERTIES
  NeverRefusedLater
