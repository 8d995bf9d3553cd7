------------------------------ MODULE MCUartTx ------------------------------
\* Small instances of UartTx for TLC; the configurations give the constants.
EXTENDS UartTx
=============================================================================
