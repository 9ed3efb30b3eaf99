----------------------------- MODULE MCGdbServer -----------------------------
\* The instances of GdbServer that TLC checks.
EXTENDS GdbServer, TLC

\* The target addresses are interchangeable.
Symmetry == Permutations(Targets)
=============================================================================
