--------------------------- MODULE MCCc3000Driver ---------------------------
EXTENDS Cc3000Driver
=============================================================================
