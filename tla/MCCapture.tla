------------------------------ MODULE MCCapture ------------------------------
EXTENDS Capture, TLC
=============================================================================
