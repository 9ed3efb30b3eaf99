---------------------------- MODULE MCUartBridge ----------------------------
\* The instance of UartBridge that TLC checks.
EXTENDS UartBridge, TLC
=============================================================================
