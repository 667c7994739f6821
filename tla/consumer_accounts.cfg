CONSTANTS
  bet = bet
  poison = poison
  refused = refused
  c1 = c1
  c2 = c2
  Message = {bet, poison, refused}
  Consumer = {c1, c2}
  HasDlq = TRUE
  MaxMessages = 2
  MaxReceive = 2
  MaxFailures = 1
  MaxRestarts = 1
  Group <- MCGroup
  Rank <- MCRank
  Class <- MCClass
SPECIFICATION FairSpec
INVARIANTS Accounted CopiesPerReceive
PROPERTY EverySettles
CHECK_DEADLOCK FALSE
