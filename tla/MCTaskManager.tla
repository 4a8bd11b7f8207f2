--------------------------- MODULE MCTaskManager ---------------------------
EXTENDS TaskManager
CONSTANTS t1, t2, w1, w2
=============================================================================
