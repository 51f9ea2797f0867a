SPECIFICATION FairSpec
CONSTANTS
  a1 = a1
  a2 = a2
  p1 = p1
  p2 = p2
  s1 = s1
  c1 = c1
  c2 = c2
  NoAccnt = NoAccnt
  NoCid = NoCid
  NoRow = NoRow
  NoInfo = NoInfo
  NoClient = NoClient
  Clients <- TwoClients
  AccntNo <- OneAccnt
  Pins <- OnePin
  SSNs <- OneSSN
  MAXCID = 1
  FirstCid = 0
  MaxConnects = 3
  Word = 16
  RecWord = 8
  Faults = FALSE
  Crashes = TRUE
  Amounts = {1}
  Counts = {2}
  RequestTypes = {"CONNECT", "CREATE_ACCOUNT", "LOGON", "WITHDRAWAL"}
  MaxTrans = 2
  MaxMoney = 2
  CutTypes = {"WITHDRAWAL"}
  MaxDeaf = 1
  MaxAhead = 2
PROPERTIES
  AnswerComes
