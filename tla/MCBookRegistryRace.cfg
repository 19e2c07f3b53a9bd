SPECIFICATION Spec
CONSTANTS
  Threads = {t1, t2, t3}
  Nobody = Nobody
  btc = btc
  eth = eth
  sol = sol
  Symbols <- MCSymbols
  LastStripe = 1
  StripeOf <- MCStripeOf
INVARIANTS NoDataRace
\* A behaviour ends in its first data race.
CHECK_DEADLOCK FALSE
