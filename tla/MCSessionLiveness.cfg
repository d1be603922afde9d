SPECIFICATION Spec
CONSTANTS
  Address <- MCAddress
  Ticker <- MCTicker
  network_ticker = "ETH"
  Garbage <- MCGarbage
  Transactions <- MCFewTransactions
  TokenInfo <- MCTokenInfo
  Unprintable <- MCUnprintable
PROPERTIES
  ComesToPrompt
  ImplementsInformedReview
