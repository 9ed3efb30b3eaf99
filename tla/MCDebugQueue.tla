---------------------------- MODULE MCDebugQueue ----------------------------
\* The instances of DebugQueue that TLC checks.
EXTENDS DebugQueue
=============================================================================
