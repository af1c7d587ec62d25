SPECIFICATION Spec
CONSTANTS
  top = top
  brew = brew
  meter = meter
  w1 = w1
  w2 = w2
  k1 = k1
  Contents = {top, brew}
  NrNodes = 2
  LastIn <- PageLastIn
  ContentOf <- PageContent
  Guarded = {brew}
  Clients = {k1}
  Writers = {w1}
  MaxPolls = 2
  MaxChanges = 0
  MaxFailures = 1
  LateAnswers = TRUE
  None = None
PROPERTY NeverBackwards
