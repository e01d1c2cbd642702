----------------------------- MODULE MCSamples -----------------------------
EXTENDS Samples
CONSTANTS m1, m2, c1, c2, c3

\* A machine that reconnects has two connections for a while.
ConnMachine == [c \in {c1, c2, c3} |-> IF c = c3 THEN m2 ELSE m1]
=============================================================================
