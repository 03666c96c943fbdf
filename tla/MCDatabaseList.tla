--------------------------- MODULE MCDatabaseList ---------------------------
EXTENDS DatabaseList

MCDbs == {1, 2}
=============================================================================
