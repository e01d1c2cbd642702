---------------------------- MODULE MCTerminals ----------------------------
EXTENDS Terminals, TLC
CONSTANTS s1, s2, s3, d1, d2, m1, m2

\* Sessions, dials and machines are interchangeable.
TerminalSymmetry == Permutations(Session) \cup Permutations(Dial)
                      \cup Permutations(Machine)
=============================================================================
