CONSTANTS
  Wallet = {"w1"}
  OpenAtStart = {}
  Cmd = {"bet", "refund"}
  Handler = {h1, h2}
  Worker = {k1}
  BatchSize = 1
  MaxAttempts = 2
  MaxCrashes = 1
  WalletInfo <- MCWalletInfo
  Request <- MCRequest
  Key <- MCKey
  Ext <- MCExt
  Message <- MCMessage
  None = None
  h1 = h1
  h2 = h2
  h3 = h3
  k1 = k1
  k2 = k2
SPECIFICATION FairSpec
INVARIANT OutboxMatchesRows
PROPERTIES ReversalSettles RequestEnds
