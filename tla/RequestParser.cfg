SPECIFICATION Spec
CONSTANTS
  Requests <- MCRequests
  BufferSize = 38
  StaleByte = 97
  Post <- MCPost
  ContentLength <- MCLength
  Cookie <- MCCookie
  Session <- MCSession
INVARIANTS TypeOK ParsedAsSent OnlyUpwardPathsRefused NeverWaitsInVain
CHECK_DEADLOCK FALSE
