--------------------------- MODULE MCBatchBuffer ---------------------------
EXTENDS BatchBuffer
=============================================================================
