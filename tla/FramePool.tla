------------------------------ MODULE FramePool -------------------------------
(***************************************************************************)
(* What allocatePageFrame and freePageFrame promise their callers, without *)
(* the list: frames are free or have a number of users, a frame that is    *)
(* handed out was free, and one is free again when its last user gives it  *)
(* up.  Memory uses the frames in this way; FrameList implements it.       *)
(***************************************************************************)
EXTENDS Naturals

CONSTANT Frame

VARIABLES free, users

Init == free = {} /\ users = [f \in Frame |-> 0]

\* The kernel has set up its memory: some frames are in use, some available,
\* and the others do not exist.
Start ==
  /\ free = {} /\ \A f \in Frame : users[f] = 0
  /\ users' \in [Frame -> {0, 1}]
  /\ free' \subseteq {f \in Frame : users'[f] = 0}

\* Frames are taken off the pool, each for one user.
Allocate ==
  /\ free' \subseteq free
  /\ users' = [f \in Frame |-> IF f \in free \ free' THEN 1 ELSE users[f]]

\* A frame that is in use gets another user.
Share ==
  /\ \E f \in Frame : users[f] > 0 /\ users' = [users EXCEPT ![f] = @ + 1]
  /\ UNCHANGED free

\* Some frames lose a user each; those that lose the last are available.
Release ==
  LET given == {f \in Frame : users'[f] # users[f]}
  IN /\ \A f \in given : users[f] > 0
     /\ users' = [f \in Frame |-> IF f \in given THEN users[f] - 1 ELSE users[f]]
     /\ free' = free \cup {f \in given : users[f] = 1}

Next == Start \/ Allocate \/ Share \/ Release

Spec == Init /\ [][Next]_<<free, users>>
==============================================================================
