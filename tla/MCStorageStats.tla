--------------------------- MODULE MCStorageStats ---------------------------
EXTENDS StorageStats
=============================================================================
