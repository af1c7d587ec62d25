---------------------------- MODULE MCSmartLock ----------------------------
EXTENDS SmartLock, TLC

CONSTANTS t1, t2, t3, p1, p2, x1, x2, x3

MCThreads == {t1, t2, t3}
MCPointers == {p1, p2}
\* the record of a page is locked before its data
MCRank == p1 :> 1 @@ p2 :> 2
\* the dispatcher thread builds the pages before a request comes in
MCFirstUsers == {t1}
=============================================================================
