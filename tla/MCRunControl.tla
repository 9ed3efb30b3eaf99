----------------------------- MODULE MCRunControl -----------------------------
\* The instance of RunControl that TLC checks.
EXTENDS RunControl
=============================================================================
