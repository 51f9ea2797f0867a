SPECIFICATION FairSpec
CONSTANTS
  a1 = a1
  a2 = a2
  NoAccnt = NoAccnt
  NoCid = NoCid
  AccntNo <- MCAccntNo
  MAXCID = 5
  FirstCid = 2
  MaxConnects = 7
INVARIANTS
  TypeOK
  LoggedOnCounted
  GrantedOnce
PROPERTIES
  AccntBound
  ConnectEnds
