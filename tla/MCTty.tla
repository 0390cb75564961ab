-------------------------------- MODULE MCTty --------------------------------
\* Model values for Tty.
EXTENDS Tty, TLC

\* The processes at a terminal are interchangeable.
Symmetry == Permutations(Proc)
==============================================================================
