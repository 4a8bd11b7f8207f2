------------------------- MODULE MCTaskDiskManager -------------------------
EXTENDS TaskDiskManager
CONSTANTS a, b
=============================================================================
