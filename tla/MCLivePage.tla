---------------------------- MODULE MCLivePage ----------------------------
EXTENDS LivePage, TLC

CONSTANTS top, brew, meter, w1, w2, k1

\* the page alone
PageLastIn == <<2, 2>>
PageContent == <<top, brew>>

\* the widget is inserted in the page and next to it
SharedLastIn == <<4, 3, 3, 4>>
SharedContent == <<top, brew, meter, meter>>
=============================================================================
