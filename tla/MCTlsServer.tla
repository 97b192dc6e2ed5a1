---------------------------- MODULE MCTlsServer ----------------------------
EXTENDS TlsServer
=============================================================================
