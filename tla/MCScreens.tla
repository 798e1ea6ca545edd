----------------------------- MODULE MCScreens -----------------------------
EXTENDS Screens
=============================================================================
