CONSTANTS
  usd = usd  c1 = c1  c2 = c2  f1 = f1
  USD = usd
  CryptoPairs <- MCCryptoPairs
  Fiats = {f1}
  BookQuotes <- MCBookQuotes
  TickQuotes = {}
  StartQuotes <- MCStartQuotes
  StartRates = {0}
  FiatRates = {0, 3}
  SortedAssets <- MCSortedAssets
  RowOrders <- MCRowOrders
  MaxFaults = 0
SPECIFICATION Spec
INVARIANT NoPhantomArbitrage
