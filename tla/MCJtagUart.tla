----------------------------- MODULE MCJtagUart -----------------------------
EXTENDS JtagUart
=============================================================================
