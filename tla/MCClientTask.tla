---------------------------- MODULE MCClientTask ----------------------------
\* The instance of ClientTask that TLC checks.
EXTENDS ClientTask
=============================================================================
