SPECIFICATION Spec
CONSTANTS
  a1 = a1
  a2 = a2
  p1 = p1
  p2 = p2
  s1 = s1
  NoAccnt = NoAccnt
  NoCid = NoCid
  NoRow = NoRow
  NoInfo = NoInfo
  AccntNo <- OneAccnt
  Pins <- OnePin
  SSNs <- OneSSN
  MAXCID = 1
  FirstCid = 1
  MaxConnects = 3
  Word = 4
  RecWord = 4
  Faults = TRUE
  Crashes = TRUE
  Amounts = {3}
  Counts = {1, 2}
  RequestTypes <- AllTypes
  MaxTrans = 2
  MaxMoney = 3
INVARIANTS
  TypeOK
  SuccessIsTold
  OwnAccountTold
  FailureIsNotToldSuccess
PROPERTIES
  MoneyMovesAsAsked
