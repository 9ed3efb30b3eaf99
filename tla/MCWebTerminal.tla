---------------------------- MODULE MCWebTerminal ----------------------------
\* The instance of WebTerminal that TLC checks.
EXTENDS WebTerminal

\* Windows below the minimal size, at it, and above it in one or both dimensions.
MCWindows == {[width |-> 5, height |-> 4], [width |-> 5, height |-> 17],
              [width |-> 15, height |-> 17]}
=============================================================================
