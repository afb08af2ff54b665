-------------------------- MODULE MCSfsTransactions --------------------------
EXTENDS SfsTransactions
=============================================================================
