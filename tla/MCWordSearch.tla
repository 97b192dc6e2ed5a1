---------------------------- MODULE MCWordSearch ----------------------------
EXTENDS WordSearch
=============================================================================
