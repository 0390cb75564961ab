---------------------------- MODULE PrivateMemory -----------------------------
(***************************************************************************)
(* What Fork, Exec, Brk, Exit and the memory trap promise to programs,     *)
(* with no frames, no sharing and no copy-on-write: each process has an    *)
(* image of its own.  Memory refines this module when there are no threads.*)
(* An image maps each page to <<v>>, the value it holds, or to <<>>.       *)
(***************************************************************************)
EXTENDS Integers

CONSTANTS Proc, InitProc, MAX_PT_LEN, Val, Junk, Loaded, Program

VARIABLES live, image

Page == 0..MAX_PT_LEN-1
NoImage == [i \in Page |-> <<>>]

\* The image a program starts with.
LoadedImage(prog) ==
  [i \in Page |-> CASE i < prog.text + prog.data -> <<Loaded>>
                    [] i >= MAX_PT_LEN - prog.stack -> <<Junk>>
                    [] OTHER -> <<>>]

Init ==
  /\ live = {InitProc}
  /\ \E prog \in Program :
       image = [p \in Proc |-> IF p = InitProc THEN LoadedImage(prog) ELSE NoImage]

Write(p, i, v) ==
  /\ image[p][i] # <<>>
  /\ image' = [image EXCEPT ![p][i] = <<v>>]
  /\ UNCHANGED live

\* The stack or the heap grows by pages with undefined contents.
Grow(p, S) ==
  /\ \A i \in S : image[p][i] = <<>>
  /\ image' = [image EXCEPT ![p] =
                 [i \in Page |-> IF i \in S THEN <<Junk>> ELSE @[i]]]
  /\ UNCHANGED live

Shrink(p, S) ==
  /\ image' = [image EXCEPT ![p] = [i \in Page |-> IF i \in S THEN <<>> ELSE @[i]]]
  /\ UNCHANGED live

Fork(p, c) ==
  /\ c \in Proc \ live
  /\ live' = live \cup {c}
  /\ image' = [image EXCEPT ![c] = image[p]]

Exec(p, prog) ==
  /\ image' = [image EXCEPT ![p] = LoadedImage(prog)]
  /\ UNCHANGED live

Exit(p) ==
  /\ p # InitProc
  /\ live' = live \ {p}
  /\ image' = [image EXCEPT ![p] = NoImage]

Next ==
  \E p \in live :
    \/ \E i \in Page, v \in Val : Write(p, i, v)
    \/ \E S \in SUBSET Page : Grow(p, S) \/ Shrink(p, S)
    \/ \E c \in Proc : Fork(p, c)
    \/ \E prog \in Program : Exec(p, prog)
    \/ Exit(p)

Spec == Init /\ [][Next]_<<live, image>>
==============================================================================
