------------------------------ MODULE MCAdvice ------------------------------
(* Instances of Advice for TLC. *)
EXTENDS Advice

CONSTANTS p1, p2, s1, s2, u1

MCSymmetry == Permutations(Procs)

\* The universe is not in alphabetical order.
MCUniverse == <<2, 1>>

\* An entry for the first in the alphabet, an exit for the other.
MCSignals == [s \in {1, 2} |-> IF s = 1 THEN {[direction |-> "LONG", qty |-> 0]}
                                         ELSE {[direction |-> "EXIT", qty |-> 1]}]

\* Vetoes the exit, not the entry.
MCOutputs == {[conviction |-> 3, news_impact |-> "positive"]}

MCSources == <<s1, s2>>

\* Both sources may carry the one item.
MCItems == [s \in {s1, s2} |-> {u1}]
=============================================================================
