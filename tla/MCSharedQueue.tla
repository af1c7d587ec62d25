--------------------------- MODULE MCSharedQueue ---------------------------
EXTENDS SharedQueue

CONSTANTS main, c1, c2, c3, s1, s2, s3, s4

MCConsumers == {c1, c2, c3}
MCItems == {s1, s2, s3, s4}
=============================================================================
