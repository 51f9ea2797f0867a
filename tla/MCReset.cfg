SPECIFICATION Spec
CONSTANTS
  HdrLen = 1
  ReqLen = 2
  ErrLen = 2
  AnsLens = {2}
  ListLens = {3, 4, 5}
  OtherLens = {3}
  LenWord = 4
  BuffSize = 3
  Cuts = TRUE
  MaxRequests = 3
PROPERTIES
  CompleteIsHandled
CHECK_DEADLOCK FALSE
