---------------------------- MODULE MCAlexMotion ----------------------------
EXTENDS AlexMotion
=============================================================================
