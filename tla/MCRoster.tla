------------------------------ MODULE MCRoster ------------------------------
EXTENDS Roster, TLC
=============================================================================
