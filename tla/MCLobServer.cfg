SPECIFICATION FairSpec
CONSTANTS
  Threads = {t1, t2}
  Nobody = Nobody
  btc = btc
  eth = eth
  stripe = stripe
  Symbols <- MCSymbols
  Stripes <- MCStripes
  StripeOf <- MCStripeOf
  Bodies <- MCBodies
  Changes <- MCChanges
  MaxOrders = 3
INVARIANTS TypeOK RestingHasMeta CancelledIsFinal NeverCrossed
PROPERTIES BookIsGuarded ImplementsExchange EveryRequestAnswered
