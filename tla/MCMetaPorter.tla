--------------------------- MODULE MCMetaPorter ---------------------------
EXTENDS MetaPorter
=============================================================================
