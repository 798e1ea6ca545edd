------------------------------ MODULE MCAccrual ------------------------------
EXTENDS Accrual
=============================================================================
