-------------------------- MODULE MCXmppConnection --------------------------
EXTENDS XmppConnection
=============================================================================
