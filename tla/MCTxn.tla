------------------------------- MODULE MCTxn -------------------------------
EXTENDS TxnScreens
=============================================================================
