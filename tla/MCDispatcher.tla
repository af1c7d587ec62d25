--------------------------- MODULE MCDispatcher ---------------------------
EXTENDS Dispatcher, TLC

CONSTANTS brewing, fermenting, status, b1, cookie

MCSessionOf == b1 :> cookie

MCCreators == <<brewing, status, fermenting>>
=============================================================================
