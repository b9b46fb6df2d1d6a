----------------------------- MODULE MCHistory -----------------------------
(* Instances of History for TLC. *)
EXTENDS History

CONSTANTS p1, p2, a, b, k1, k2, k3

Info(symbol, key) == [symbol |-> symbol, key |-> key]

\* Listed, then its key given to another symbol while it gets a new one, in
\* the one order of the records and in the other.
MCMasters == {<<Info(a, k1)>>, <<Info(b, k1), Info(a, k2)>>, <<Info(a, k3), Info(b, k1)>>}

MCSymmetry == Permutations(Syncs)

Usual == [close |-> 10, sound |-> TRUE]
MCCandles == {Usual, [close |-> 20, sound |-> FALSE]}

\* The day in the middle is published late.
MCPublished == {[d \in Days |-> IF d = 7 THEN None ELSE Usual]}

\* One chunk and two; both over the turn of the year.
MCRanges == {<<7, 8>>, <<3, 8>>}
=============================================================================
