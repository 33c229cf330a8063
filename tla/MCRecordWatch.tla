--------------------------- MODULE MCRecordWatch ---------------------------
EXTENDS RecordWatch
=============================================================================
