------------------------------ MODULE MCClient ------------------------------
EXTENDS Display
=============================================================================
