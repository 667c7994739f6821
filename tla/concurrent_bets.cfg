CONSTANTS
  Wallet = {"w1", "w2"}
  OpenAtStart = {"w1", "w2"}
  Cmd = {"bet", "betByQueue", "lossUnderBetKey", "bet2", "betZero", "betWrongWallet"}
  Handler = {h1, h2, h3}
  Worker = {}
  BatchSize = 1
  MaxAttempts = 1
  MaxCrashes = 1
  WalletInfo <- MCWalletInfo
  Request <- MCRequest
  Key <- MCKey
  Ext <- MCExt
  Message <- MCMessage
  None = None
  h1 = h1
  h2 = h2
  h3 = h3
  k1 = k1
  k2 = k2
SPECIFICATION Spec
SYMMETRY Processes
INVARIANTS InboxRecordsOutcome AnswerIsDurable NoDeadlock OperationAcceptedOnce
PROPERTIES ImplementsService DecidedOnCurrentBalance
