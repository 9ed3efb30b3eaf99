------------------------------ MODULE MCOtaTftp ------------------------------
\* The instances of OtaTftp that TLC checks.
EXTENDS OtaTftp
=============================================================================
