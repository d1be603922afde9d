SPECIFICATION Spec
CONSTANTS
  Address <- EtherAddress
  Ticker <- MCTicker
  network_ticker = "ETH"
  Transactions <- EtherRoutes
  TokenInfo <- MCTokenInfo
  Unprintable <- MCUnprintable
INVARIANTS
  NetworkTokenNotLookedUp
