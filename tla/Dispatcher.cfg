SPECIFICATION FairSpec
CONSTANTS
  brewing = brewing
  fermenting = fermenting
  status = status
  b1 = b1
  cookie = cookie
  Browsers = {b1}
  SessionOf <- MCSessionOf
  Creators <- MCCreators
  Visible = {brewing, status}
  Page1 = brewing
  Page2 = fermenting
  Password = TRUE
  MaxInstances = 3
  MaxEvents = 3
INVARIANTS TypeOK CallbacksFindContents SomePageShown OnePageShown
PROPERTIES LoggedOutPagesLeave ComesBack
CHECK_DEADLOCK FALSE
