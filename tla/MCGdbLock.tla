------------------------------ MODULE MCGdbLock ------------------------------
\* Client tasks with two nested scopes each, and exceptions that may leak the counter
\* up to 3: the instance TLC checks.
EXTENDS GdbLock
=============================================================================
