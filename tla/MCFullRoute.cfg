SPECIFICATION Spec
CONSTANTS
  Address <- MCAddress
  Ticker <- SourceTickers
  Garbage <- MCGarbage
  Transactions <- MCTransactions
INVARIANTS
  RouteEndDecoded
