---------------------------- MODULE MCPortfolio ----------------------------
EXTENDS Portfolio

\* No ledger yet.
MCOpening == {[p \in Positions |-> <<>>]}
=============================================================================
