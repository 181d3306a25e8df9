---------------------------- MODULE MCC2SPorter ----------------------------
EXTENDS C2SPorter
=============================================================================
