-------------------------------- MODULE Rounds --------------------------------
(***************************************************************************)
(* What is left in x by  for (i = first; i < last; i++) x = Round(x, i).   *)
(***************************************************************************)
EXTENDS Integers

CONSTANT Round(_, _)

\* x after n rounds.
After(start, first) ==
  LET after[n \in Nat] ==
        IF n = 0 THEN start ELSE Round(after[n - 1], first + n - 1)
  IN after

Loop(start, first, last) == After(start, first)[last - first]
==============================================================================
