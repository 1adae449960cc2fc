------------------------- MODULE MCDatabaseManager -------------------------
EXTENDS DatabaseManager

CONSTANTS c1, c2, r1, r2
=============================================================================
