------------------------- MODULE MCMigrationRunner -------------------------
EXTENDS MigrationRunner

CONSTANTS r1, r2, r3
=============================================================================
