SPECIFICATION Spec
CONSTANTS
  Address <- MCAddress
  Ticker <- MCTicker
  network_ticker = "ETH"
  Garbage <- MCGarbage
  Transactions <- MCTransactions
  TokenInfo <- MCTokenInfo
  Unprintable <- MCUnprintable
INVARIANTS
  TypeOK
  HandedOver
  ToldAsHandedOver
  IInv
PROPERTIES
  InformedStepByStep
  AcceptedStays
