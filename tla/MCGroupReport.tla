--------------------------- MODULE MCGroupReport ---------------------------
\* Small instances of GroupReport for TLC; the configurations give the constants.
EXTENDS GroupReport
=============================================================================
