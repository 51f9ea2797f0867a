SPECIFICATION Spec
CONSTANTS
  a1 = a1
  a2 = a2
  p1 = p1
  p2 = p2
  s1 = s1
  NoAccnt = NoAccnt
  NoCid = NoCid
  NoRow = NoRow
  NoInfo = NoInfo
  AccntNo <- MCAccntNo
  Pins <- OnePin
  SSNs <- OneSSN
  MAXCID = 0
  FirstCid = 0
  MaxConnects = 1
  Word = 16
  RecWord = 8
  Faults = TRUE
  Crashes = TRUE
  Amounts = {0, 1}
  Counts = {2}
  RequestTypes <- LedgerTypes
  MaxTrans = 2
  MaxMoney = 2
SYMMETRY Symmetry
INVARIANTS
  LedgerMatches
PROPERTIES
  RecordsFollowMoney
  KeepsPromises
