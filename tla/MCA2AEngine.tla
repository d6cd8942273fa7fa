----------------------------- MODULE MCA2AEngine ----------------------------
EXTENDS A2AEngine

CONSTANTS t1, t2

=============================================================================
