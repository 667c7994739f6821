CONSTANTS
  Wallet = {"w1", "w2"}
  OpenAtStart = {"w1"}
  Cmd = {"bet", "bet2", "refund", "loss"}
  WalletInfo <- MCWalletInfo
  Request <- MCRequest
  Key <- MCExt
  Ext <- MCExt
  Message = {}
  None = None
  r1 = r1
  a1 = a1
  a2 = a2
  Reader = {r1}
  Auditor = {a1}
  MaxPage = 2
  EntryId <- MCEntryId
  LastInstant = 1
SPECIFICATION ReadersSpec
INVARIANTS ReadersTypeOK NothingSkipped NothingRepeated ReconcilesOneState NoFalseAlarm
