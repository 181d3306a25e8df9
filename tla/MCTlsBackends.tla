---------------------------- MODULE MCTlsBackends ----------------------------
EXTENDS TlsBackends
=============================================================================
