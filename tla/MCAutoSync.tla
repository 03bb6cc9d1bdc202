---------------------------- MODULE MCAutoSync -----------------------------
EXTENDS AutoSync
CONSTANTS g1, g2
=============================================================================
