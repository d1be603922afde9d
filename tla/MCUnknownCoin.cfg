SPECIFICATION Spec
CONSTANTS
  Address <- MCAddress
  Ticker <- MCTicker
  network_ticker = "ETH"
  Garbage <- MCGarbage
  Transactions <- UnknownCoin
  TokenInfo <- MCTokenInfo
  Unprintable <- MCUnprintable
INVARIANTS
  UnknownCoinRefused
