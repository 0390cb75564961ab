------------------------------ MODULE MCProcess ------------------------------
\* Instances of Process.  Descriptors are interchangeable but for the initial
\* one, so the lowest free address stands for whichever malloc returns.
EXTENDS Process

Lowest(S) == {p \in S : \A q \in S : p <= q}
==============================================================================
