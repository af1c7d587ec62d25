SPECIFICATION Spec
CONSTANTS
  top = top
  brew = brew
  meter = meter
  w1 = w1
  w2 = w2
  k1 = k1
  Contents = {top, brew, meter}
  NrNodes = 4
  LastIn <- SharedLastIn
  ContentOf <- SharedContent
  Guarded = {brew}
  Clients = {k1}
  Writers = {w1, w2}
  MaxPolls = 1
  MaxChanges = 2
  MaxFailures = 0
  LateAnswers = FALSE
  None = None
INVARIANTS TypeOK UpToDate NoBrokenScript
