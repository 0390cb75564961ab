------------------------------- MODULE MCSync --------------------------------
\* Model values for Sync: TLC checks it with a handful of descriptors.
EXTENDS Sync, TLC

\* Descriptors other than the first are interchangeable.
Symmetry == Permutations(Proc \ {InitProc})
==============================================================================
