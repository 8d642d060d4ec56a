---------------------------- MODULE MCTraceReader ----------------------------
EXTENDS TraceReader, TLC
=============================================================================
