------------------------- MODULE MCConnectionChecker -------------------------
EXTENDS ConnectionChecker
CONSTANTS t1, t2, t3
=============================================================================
