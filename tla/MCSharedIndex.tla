--------------------------- MODULE MCSharedIndex ---------------------------
\* Two devices; one layout owns two groups, another, where it is used, one.
EXTENDS SharedIndex, TLC

CONSTANTS d1, d2, cards, states, ga, gb, gc

MCLayoutOf == [g \in Groups |-> IF g = gc THEN states ELSE cards]
MCSymmetry == Permutations({d1, d2}) \cup Permutations({ga, gb})
=============================================================================
