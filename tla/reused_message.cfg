CONSTANTS
  Wallet = {"w1"}
  OpenAtStart = {"w1"}
  Cmd = {"betByQueue", "betReusedMessage"}
  Handler = {h1}
  Worker = {}
  BatchSize = 1
  MaxAttempts = 1
  MaxCrashes = 0
  WalletInfo <- MCWalletInfo
  Request <- MCRequest
  Key <- MCKey
  Ext <- MCExt
  Message <- MCMessage
  None = None
  h1 = h1
  h2 = h2
  h3 = h3
  k1 = k1
  k2 = k2
SPECIFICATION Spec
INVARIANT ReplayHasSamePayload
