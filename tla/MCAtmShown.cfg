SPECIFICATION Spec
SYMMETRY PinSymmetry
VIEW ShownView
CONSTANTS
  a1 = a1
  a2 = a2
  p1 = p1
  p2 = p2
  s1 = s1
  c1 = c1
  c2 = c2
  NoAccnt = NoAccnt
  NoCid = NoCid
  NoRow = NoRow
  NoInfo = NoInfo
  NoClient = NoClient
  Clients <- TwoClients
  AccntNo <- OneAccnt
  Pins <- TwoPins
  SSNs <- OneSSN
  MAXCID = 1
  FirstCid = 0
  MaxConnects = 3
  Word = 16
  RecWord = 8
  Faults = FALSE
  Crashes = FALSE
  Amounts = {1}
  Counts = {2}
  RequestTypes = {"CONNECT", "CREATE_ACCOUNT", "LOGON", "DEPOSIT", "WITHDRAWAL",
                  "TRANSACTION_QUERY", "BALANCE_QUERY"}
  MaxTrans = 2
  MaxMoney = 2
  CutTypes = {"WITHDRAWAL"}
  MaxDeaf = 1
  MaxAhead = 1
INVARIANTS
  ShownIsTrue
