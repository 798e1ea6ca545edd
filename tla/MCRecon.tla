------------------------------ MODULE MCRecon ------------------------------
EXTENDS ReconScreen
=============================================================================
