------------------------------ MODULE MCWaits ------------------------------
EXTENDS Waits
=============================================================================
