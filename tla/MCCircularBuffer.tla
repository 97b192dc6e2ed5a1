-------------------------- MODULE MCCircularBuffer --------------------------
EXTENDS CircularBuffer
=============================================================================
