------------------------------- MODULE MCMuc -------------------------------
EXTENDS Muc
=============================================================================
