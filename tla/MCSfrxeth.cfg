SPECIFICATION Spec
CONSTANTS
  Address <- MCAddress
  Ticker <- MCTicker
  network_ticker = "ETH"
  Transactions <- MCTransactions
  TokenInfo <- MCTokenInfo
  Unprintable <- MCUnprintable
INVARIANTS
  SfrxethBuysOeth
