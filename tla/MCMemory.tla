------------------------------ MODULE MCMemory -------------------------------
\* Instances of Memory.  Free frames are interchangeable, so giving out the
\* lowest ones first loses no behaviour but for the names of the frames.
EXTENDS Memory, TLC

CONSTANT MCFrames
MCFrame == 0..MCFrames

Nth(F, n) == CHOOSE f \in F : Cardinality({g \in F : g < f}) = n

LowestFirst(S, F) ==
  IF Cardinality(S) > Cardinality(F) THEN {}
  ELSE {[s \in S |-> Nth(F, Cardinality({t \in S : t < s}))]}

\* One page of text and one of stack; what is between is heap and stack.
Small == {[text |-> 1, data |-> 0, stack |-> 1]}
SmallAndLarger == Small \cup {[text |-> 1, data |-> 1, stack |-> 1]}

\* The state up to the names of the frames: what a slot says of its frame is
\* who else uses it, its count, its contents and whether it is on the list.
SlotView(p, s) ==
  LET e == pt[p][s] IN
  IF e.valid THEN <<e.write, e.cow, frc[e.frame], mem[e.frame],
                    e.frame \in free, Uses(e.frame)>>
             ELSE <<>>

FramesRenamed ==
  <<live, thread_leader, layout, halted,
    [p \in live |-> [s \in Slot |-> SlotView(p, s)]],
    frc[KernelFrame], KernelFrame \in free, Uses(KernelFrame),
    Cardinality(free),
    {<<frc[f], mem[f], f \in free>> :
       f \in {g \in Frame \ {KernelFrame} : Uses(g) = {}}}>>
==============================================================================
