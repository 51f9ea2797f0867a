SPECIFICATION Spec
CONSTANTS
  a1 = a1
  a2 = a2
  p1 = p1
  p2 = p2
  s1 = s1
  NoAccnt = NoAccnt
  NoCid = NoCid
  NoRow = NoRow
  NoInfo = NoInfo
  AccntNo <- MCAccntNo
  Pins <- OnePin
  SSNs <- OneSSN
  MAXCID = 1
  FirstCid = 0
  MaxConnects = 1
  Word = 16
  RecWord = 8
  Faults = FALSE
  Crashes = FALSE
  Amounts = {1}
  Counts = {2}
  RequestTypes <- MoneyTypes
  MaxTrans = 2
  MaxMoney = 2
PROPERTIES
  AssignedIsNew
