SPECIFICATION Spec
CONSTANTS
  Address <- MCAddress
  Ticker <- MCTicker
  network_ticker = "ETH"
  Garbage <- MCGarbage
  Transactions <- MCLongCalldata
  TokenInfo <- MCTokenInfo
  Unprintable <- MCUnprintable
INVARIANTS
  HandedOver
  ToldAsHandedOver
  IInv
