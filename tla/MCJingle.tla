------------------------------ MODULE MCJingle ------------------------------
EXTENDS Jingle, TLC
=============================================================================
