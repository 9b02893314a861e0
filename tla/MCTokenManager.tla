--------------------------- MODULE MCTokenManager ---------------------------
\* Instances of TokenManager for TLC.
EXTENDS TokenManager
=============================================================================
